---- MODULE Spec2Model ----
(***************************************************************************)
(* meshstack: one invocation of the command-line orchestrator.             *)
(*                                                                         *)
(* A behaviour is one process invocation: `main` dispatches on the         *)
(* subcommand, the handler resolves its targets and issues its external    *)
(* tool calls one at a time.  `calls` is the list of external processes    *)
(* spawned so far (argument vectors, tool name first), `out` the lines     *)
(* printed that the properties speak about, `err` the error the            *)
(* invocation ended with.  Every spawned process may succeed or fail.      *)
(***************************************************************************)
EXTENDS Naturals, Integers, Sequences, FiniteSets, TLC

VARIABLES
    cmd,      \* the subcommand of this invocation (Commands)
    opts,     \* its parsed command-line options
    toggles,  \* the MESHSTACK_TEST_DRY_RUN_* variables set in the environment
    fs,       \* the project directory as the invocation finds it
    cluster,  \* what helm answers to the queries of this invocation
    ctx,      \* MeshstackContext built by main
    pc,       \* position of the invocation
    idx,      \* loop index of the running batch loop
    targets,  \* the batch of the running loop
    updates,  \* update_project: updates_available
    calls,    \* external processes spawned so far, in order
    out,      \* lines printed so far
    writes,   \* files and directories written so far
    err       \* the error the invocation failed with

vars == <<cmd, opts, toggles, fs, cluster, ctx, pc, idx, targets, updates, calls, out, writes, err>>

----------------------------------------------------------------------------
(* Bounds *)

\* number of service directory names the file system may hold
MaxServices == 2

----------------------------------------------------------------------------
(* Values *)

\* Option::None
None == "<none>"

ServiceNames == <<"api", "web", "worker", "db">>

\* the names a services/ directory may hold as sub-directories
DirNames == {ServiceNames[i] : i \in 1..MaxServices}

\* a service name that has no directory
GhostService == "ghost"

\* a plain file lying in services/
PlainFile == "README.md"

SeqToSet(s) == {s[i] : i \in DOMAIN s}

RECURSIVE Perms(_)
\* all orders in which read_dir may return the set S of entries
Perms(S) ==
    IF S = {} THEN {<<>>}
    ELSE UNION {{<<x>> \o p : p \in Perms(S \ {x})} : x \in S}

\* anyhow::Error, by its message: kind is the fixed text, subject the
\* interpolated name, valid the list of valid names the message gives
Error(kind, subject, valid) == [kind |-> kind, subject |-> subject, valid |-> valid]

NoError == Error("none", None, <<>>)

----------------------------------------------------------------------------
(* The project configuration and its file *)

\* struct MeshstackConfig: its fields, in the order they are declared
FieldNames == <<"project_name", "language", "service_mesh", "ci_cd">>

MeshstackConfig(project_name, language, service_mesh, ci_cd) ==
    [project_name |-> project_name, language |-> language,
     service_mesh |-> service_mesh, ci_cd |-> ci_cd]

\* Result<MeshstackConfig>
Ok(config) == [ok |-> TRUE, config |-> config]

Err == [ok |-> FALSE, config |-> MeshstackConfig(None, None, None, None)]

\* a node of a YAML document: a scalar with its text, or a sequence or
\* mapping
Scalar(text) == [scalar |-> TRUE, text |-> text]

NotScalar == [scalar |-> FALSE, text |-> None]

\* a file read as YAML: it is not there, it is no YAML mapping, or it is a
\* mapping, given by its <<key, node>> entries in file order
NoFile == [kind |-> "absent", entries |-> <<>>]

NotYaml == [kind |-> "invalid", entries |-> <<>>]

Mapping(entries) == [kind |-> "mapping", entries |-> entries]

\* serde_yaml_to_string that puts the values under the names in reverse
serde_yaml_to_string_reversed(config) ==
    Mapping([i \in DOMAIN FieldNames |->
                <<FieldNames[i], Scalar(config[FieldNames[Len(FieldNames) + 1 - i]])>>])

\* serde_yaml::to_string of a MeshstackConfig: one entry per field, in the
\* order of declaration, under the name of the field
serde_yaml_to_string(config) ==
    Mapping([i \in DOMAIN FieldNames |-> <<FieldNames[i], Scalar(config[FieldNames[i]])>>])

\* serde_yaml::from_str::<MeshstackConfig>: every field is wanted exactly
\* once, as a scalar, whose text becomes the String; other keys are skipped
serde_yaml_from_str(doc) ==
    LET at(f) == {i \in DOMAIN doc.entries : doc.entries[i][1] = f}
        text(f) == doc.entries[CHOOSE i \in at(f) : TRUE][2].text
    IN  IF doc.kind # "mapping" THEN Err
        ELSE IF \E f \in SeqToSet(FieldNames) :
                    \/ Cardinality(at(f)) # 1
                    \/ \E i \in at(f) : ~doc.entries[i][2].scalar
        THEN Err
        ELSE Ok(MeshstackConfig(text("project_name"), text("language"),
                                text("service_mesh"), text("ci_cd")))

\* MeshstackContext::load_config of a meshstack.yaml with the content doc
load_config(doc) == serde_yaml_from_str(doc)

----------------------------------------------------------------------------
(* Component catalog, as the match arms of install_component spell it *)

ValidComponents == <<"istio", "prometheus", "grafana", "cert-manager", "nginx-ingress", "vault">>

\* the chart of a component; None stands for the `_ => bail!` arm
install_chart_name(comp) ==
    CASE comp = "istio" -> "istio/istio"
      [] comp = "prometheus" -> "prometheus-community/prometheus"
      [] comp = "grafana" -> "grafana/grafana"
      [] comp = "cert-manager" -> "cert-manager/cert-manager"
      [] comp = "nginx-ingress" -> "ingress-nginx/ingress-nginx"
      [] comp = "vault" -> "hashicorp/vault"
      [] OTHER -> None

default_install_set ==
    << <<"istio", "istio/istio">>,
       <<"prometheus", "prometheus-community/prometheus">>,
       <<"grafana", "grafana/grafana">>,
       <<"cert-manager", "cert-manager/cert-manager">>,
       <<"nginx-ingress", "ingress-nginx/ingress-nginx">> >>

UnknownComponent(comp) == Error("Unknown component", comp, ValidComponents)

\* components_to_install with vault in the default set
components_to_install_with_vault(component) ==
    IF component # None
    THEN IF install_chart_name(component) = None
         THEN None
         ELSE << <<component, install_chart_name(component)>> >>
    ELSE default_install_set \o << <<"vault", "hashicorp/vault">> >>

\* install_component: let components_to_install = ...; None stands for bail
components_to_install(component) ==
    IF component # None
    THEN IF install_chart_name(component) = None
         THEN None
         ELSE << <<component, install_chart_name(component)>> >>
    ELSE default_install_set

\* install_component: the match on the profile; None stands for a bail arm
install_values_file(p) ==
    CASE p = "dev" -> "dev-values.yaml"
      [] p = "prod" -> "prod-values.yaml"
      [] OTHER -> None

install_profile_error(p) ==
    CASE p = "dev" -> NoError
      [] p = "prod" -> NoError
      [] p = "custom" -> Error("Custom profile not yet implemented", None, <<>>)
      [] OTHER -> Error("Unknown profile", p, <<"dev", "prod", "custom">>)

\* MeshstackContext::add_kube_context_args
add_kube_context_args(c) ==
    IF c.kube_context # None THEN <<"--kube-context", c.kube_context>> ELSE <<>>

\* install_command with the values file added before the cluster context
install_command_values_first(target, profile, c) ==
    <<"helm", "install", target[1], target[2]>>
        \o (IF c.dry_run THEN <<"--dry-run">> ELSE <<>>)
        \o (IF profile # None /\ install_values_file(profile) # None
            THEN <<"--values", install_values_file(profile)>>
            ELSE <<>>)
        \o add_kube_context_args(c)

\* install_command with --dry-run added after the cluster context
install_command_late_dry_run(target, profile, c) ==
    <<"helm", "install", target[1], target[2]>>
        \o add_kube_context_args(c)
        \o (IF c.dry_run THEN <<"--dry-run">> ELSE <<>>)
        \o (IF profile # None /\ install_values_file(profile) # None
            THEN <<"--values", install_values_file(profile)>>
            ELSE <<>>)

\* the helm install command install_component builds for one target
install_command(target, profile, c) ==
    <<"helm", "install", target[1], target[2]>>
        \o (IF c.dry_run THEN <<"--dry-run">> ELSE <<>>)
        \o add_kube_context_args(c)
        \o (IF profile # None /\ install_values_file(profile) # None
            THEN <<"--values", install_values_file(profile)>>
            ELSE <<>>)

\* println!("DRY RUN: Would execute <tool> command: ...")
DryRunLine(argv) == <<"DRY RUN: Would execute">> \o argv

----------------------------------------------------------------------------
(* Inputs *)

DefaultOpts ==
    [component |-> None, profile |-> None, dry_run |-> FALSE, context |-> None,
     service |-> None, env |-> None, build |-> FALSE, push |-> FALSE,
     full |-> FALSE, all |-> FALSE, confirm |-> FALSE,
     check |-> FALSE, apply |-> FALSE, template |-> FALSE, infra |-> FALSE,
     command |-> None, verbose |-> FALSE, args |-> <<>>, force |-> FALSE,
     init |-> [name |-> None, mesh |-> None, ci |-> None, config |-> None],
     validate |-> [config |-> FALSE, cluster |-> FALSE, ci |-> FALSE, full |-> FALSE],
     bootstrap |-> [kind |-> FALSE, k3d |-> FALSE, skip_install |-> FALSE, name |-> "meshstack-dev"]]

Contexts == {None, "prod-ctx"}

ComponentInputs == {None, "nonexistent"} \cup SeqToSet(ValidComponents)

ProfileInputs == {None, "dev", "prod", "staging", "custom", "bogus"}

\* the project directory of an invocation that does not look at it:
\* config: meshstack.yaml is there and parses; services: services/ exists;
\* entries: what read_dir("services") lists, in its order; templates: the
\* template source directory exists; found, missing: the other paths the
\* invocation has tested with exists(), by the answer it got
\* yaml: the content of meshstack.yaml; given: the content of the file
\* `init --config` names
EmptyDir == [config |-> FALSE, services |-> FALSE, entries |-> <<>>,
             templates |-> FALSE, found |-> {}, missing |-> {},
             yaml |-> NoFile, given |-> NoFile]

\* the configuration `init` writes when no option is given
DefaultConfig == MeshstackConfig("my-app", "generic", "istio", "github")

\* a meshstack.yaml with an entry left out
MissingFieldDoc ==
    Mapping(<< <<"project_name", Scalar("my-app")>>, <<"language", Scalar("generic")>>,
               <<"service_mesh", Scalar("istio")>> >>)

\* contents of meshstack.yaml: none, no YAML, an entry left out, the
\* default configuration, a configuration with an empty project name
ConfigDocs ==
    {NoFile, NotYaml, MissingFieldDoc,
     serde_yaml_to_string(DefaultConfig),
     serde_yaml_to_string(MeshstackConfig("", "generic", "istio", "github"))}

\* the directory d with meshstack.yaml of content y
WithConfig(d, y) == [d EXCEPT !.yaml = y, !.config = load_config(y).ok]

\* the orders in which read_dir may list services/: any order of any set of
\* service directories, with or without a plain file among them
Listings ==
    UNION {Perms({[name |-> n, is_dir |-> TRUE] : n \in D} \cup F) :
              D \in SUBSET DirNames,
              F \in {{}, {[name |-> PlainFile, is_dir |-> FALSE]}}}

\* project directories that differ in services/ only
ServiceDirs ==
    {EmptyDir} \cup {[EmptyDir EXCEPT !.services = TRUE, !.entries = l] : l \in Listings}

\* the directories `install` may be run in: the values files of the
\* profiles are there or are not
InstallDirs ==
    {EmptyDir,
     [EmptyDir EXCEPT !.found = {"dev-values.yaml", "prod-values.yaml"}],
     [EmptyDir EXCEPT !.missing = {"dev-values.yaml", "prod-values.yaml"}]}

InstallOpts ==
    {[DefaultOpts EXCEPT !.component = c, !.profile = p, !.dry_run = d, !.context = k] :
        c \in ComponentInputs, p \in ProfileInputs, d \in BOOLEAN, k \in Contexts}

DestroyOpts ==
    {[DefaultOpts EXCEPT !.service = s, !.component = c, !.full = f, !.all = a,
                         !.confirm = y, !.context = k] :
        s \in {None, ServiceNames[1], GhostService},
        c \in {None, "istio", "nonexistent"},
        f \in BOOLEAN, a \in BOOLEAN, y \in BOOLEAN, k \in Contexts}

EnvInputs == {None, "dev", "prod", "staging", "custom", "bogus"}

DeployOpts ==
    {[DefaultOpts EXCEPT !.service = s, !.env = e, !.build = b, !.push = p, !.context = k] :
        s \in {None, ServiceNames[1], GhostService},
        e \in EnvInputs, b \in BOOLEAN, p \in BOOLEAN, k \in Contexts}

\* project directories that differ in meshstack.yaml and services/
ProjectDirs ==
    {WithConfig(d, y) : d \in ServiceDirs,
                        y \in {NoFile, MissingFieldDoc, serde_yaml_to_string(DefaultConfig)}}

\* the directories `deploy` may be run in: those of ProjectDirs, where the
\* files of a service are found as they are looked for, and a configured
\* project whose only service is known to have no Chart.yaml
DeployDirs ==
    ProjectDirs \cup
    {[WithConfig(EmptyDir, serde_yaml_to_string(DefaultConfig))
         EXCEPT !.services = TRUE,
                !.entries = <<[name |-> ServiceNames[1], is_dir |-> TRUE]>>,
                !.missing = {"services/" \o ServiceNames[1] \o "/Chart.yaml"}]}

UpdateOpts ==
    {[DefaultOpts EXCEPT !.check = c, !.apply = a, !.component = comp,
                         !.template = t, !.infra = i] :
        c \in BOOLEAN, a \in BOOLEAN, comp \in {None, "istio", "vault", "nonexistent"},
        t \in BOOLEAN, i \in BOOLEAN}

\* project directories that differ in meshstack.yaml and the template source
UpdateDirs == {WithConfig([EmptyDir EXCEPT !.templates = t], y) : y \in ConfigDocs, t \in BOOLEAN}

\* a cluster no query is sent to
NoCluster == [down |-> FALSE, releases |-> {}, norepo |-> {}, unlisted |-> {}]

\* what helm may answer: down: helm list fails; releases: the releases
\* helm list finds installed; norepo: the charts helm search fails on;
\* unlisted: the charts helm search finds nothing for
Clusters ==
    {[down |-> d, releases |-> r, norepo |-> n, unlisted |-> u] :
        d \in BOOLEAN,
        r \in {{}, {"istio"}, {"prometheus", "grafana"}, SeqToSet(ValidComponents)},
        n \in {{}, {"prometheus-community/prometheus"}},
        u \in {{}, {"grafana/grafana"}}}

\* the options of `init`: name, mesh, ci and config
InitOpts ==
    {[DefaultOpts EXCEPT !.init = [name |-> n, mesh |-> m, ci |-> c, config |-> f]] :
        n \in {None, "acme", ""}, m \in {None, "linkerd"}, c \in {None, "argo"},
        f \in {None, "test_config.yaml"}}

\* contents of the file `init --config` names: none, no YAML, an entry left
\* out, a configuration, a configuration with its entries in another order
\* and a key MeshstackConfig does not have
GivenDocs ==
    {NoFile, NotYaml, MissingFieldDoc,
     serde_yaml_to_string(MeshstackConfig("my-test-app", "generic", "linkerd", "argo")),
     Mapping(<< <<"ci_cd", Scalar("github")>>, <<"owner", Scalar("ops")>>,
                <<"language", Scalar("rust")>>, <<"project_name", Scalar("shop")>>,
                <<"service_mesh", Scalar("")>> >>)}

\* the directories `init` may be run in, for the options o: initialized
\* before or not, with or without the template source of the build
InitDirs(o) ==
    {[WithConfig(EmptyDir, y) EXCEPT !.services = d, !.found = IF d THEN {"provision"} ELSE {},
                                     !.templates = t, !.given = g] :
        y \in {NoFile, NotYaml, serde_yaml_to_string(MeshstackConfig("old", "go", "linkerd", "argo"))},
        d \in BOOLEAN, t \in BOOLEAN,
        g \in IF o.init.config = None THEN {NoFile} ELSE GivenDocs}

GenerateOpts ==
    {[DefaultOpts EXCEPT !.service = s, !.all = a, !.force = f] :
        s \in {None, ServiceNames[1], GhostService}, a \in BOOLEAN, f \in BOOLEAN}

\* contents of meshstack.yaml for `generate`: those of ConfigDocs and two
\* configurations with another language and CI system
GenerateDocs ==
    ConfigDocs \cup
    {serde_yaml_to_string(MeshstackConfig("shop", "rust", "linkerd", "argo")),
     serde_yaml_to_string(MeshstackConfig("shop", "node", "istio", "jenkins"))}

\* the files and directories generate_service_scaffold makes for a service
\* in a project of the language
ScaffoldPaths(svc, language) ==
    {"services/" \o svc \o "/" \o f :
        f \in {"Dockerfile", "Chart.yaml", "templates", "templates/deployment.yaml",
               "templates/service.yaml", "values.yaml"}
              \cup (CASE language = "rust" -> {"Cargo.toml", "src", "src/main.rs"}
                      [] language \in {"node", "javascript"} -> {"package.json", "index.js"}
                      [] OTHER -> {})}

\* the files and directories generate_project_structure makes besides
\* services and meshstack.yaml
ProjectPaths ==
    {"provision", ".github/workflows", ".github/workflows/meshstack.yml",
     "argocd", "argocd/application.yaml",
     "dev-values.yaml", "prod-values.yaml", "staging-values.yaml"}

\* the directories `generate` may be run in: nothing generated so far,
\* everything, or a Dockerfile and a values file only
GenerateDirs ==
    {[WithConfig(d, y) EXCEPT !.templates = t,
         !.found = F \cap (ProjectPaths \cup
                           UNION {ScaffoldPaths(d.entries[i].name, "rust") \cup
                                  ScaffoldPaths(d.entries[i].name, "node") :
                                     i \in {j \in DOMAIN d.entries : d.entries[j].is_dir}})] :
        d \in ServiceDirs, y \in GenerateDocs, t \in BOOLEAN,
        F \in {{},
               ProjectPaths \cup UNION {ScaffoldPaths(n, "rust") \cup ScaffoldPaths(n, "node") :
                                           n \in DirNames},
               {"services/" \o ServiceNames[1] \o "/Dockerfile", "dev-values.yaml"}}}

\* the options of `bootstrap`: kind, k3d, skip_install and name
BootstrapOpts ==
    {[DefaultOpts EXCEPT !.bootstrap = [kind |-> k, k3d |-> d, skip_install |-> s, name |-> n]] :
        k \in BOOLEAN, d \in BOOLEAN, s \in BOOLEAN, n \in {"meshstack-dev", "lab"}}

\* the flags of `validate`: config, cluster, ci and full
ValidateOpts ==
    {[DefaultOpts EXCEPT !.validate = [config |-> c, cluster |-> k, ci |-> i, full |-> f]] :
        c \in BOOLEAN, k \in BOOLEAN, i \in BOOLEAN, f \in BOOLEAN}

\* contents of meshstack.yaml for `validate`: those of ConfigDocs, one with
\* an entry twice and one with an entry that is no scalar
ValidateDocs ==
    ConfigDocs \cup
    {Mapping(serde_yaml_to_string(DefaultConfig).entries \o << <<"ci_cd", Scalar("argo")>> >>),
     Mapping(<< <<"project_name", Scalar("my-app")>>, <<"language", NotScalar>>,
                <<"service_mesh", Scalar("istio")>>, <<"ci_cd", Scalar("")>> >>)}

ValidateDirs == {WithConfig(EmptyDir, y) : y \in ValidateDocs}

\* trailing arguments given to `plan --command install`
PlanInstallArgs ==
    {<<>>, <<"--component", "istio">>, <<"-c", "vault">>, <<"--component", "nonexistent">>,
     <<"--component">>, <<"--profile", "bogus">>,
     <<"--component", "grafana", "--profile", "prod", "--context", "prod-ctx">>,
     <<"--context", "prod-ctx", "-p", "custom", "--component", "nonexistent">>}

\* trailing arguments given to `plan --command deploy`
PlanDeployArgs ==
    {<<>>, <<"--service", "api">>, <<"-s", "ghost">>, <<"--service">>,
     <<"--env", "bogus", "--build", "--push">>,
     <<"-e", "prod", "--context", "prod-ctx", "--service", "README.md">>}

\* trailing arguments given to `plan --command destroy`
PlanDestroyArgs ==
    {<<>>, <<"--full">>, <<"--all", "--context", "prod-ctx">>,
     <<"--service", "api", "--full">>, <<"-c", "nonexistent">>,
     <<"--component", "istio", "-s", "ghost", "--confirm">>}

\* trailing arguments given to `plan --command update`
PlanUpdateArgs ==
    {<<>>, <<"--check">>, <<"--apply", "--component", "nonexistent">>,
     <<"-c", "vault", "--template", "--infra">>}

\* trailing arguments given to `plan --command bootstrap`
PlanBootstrapArgs ==
    {<<>>, <<"--k3d">>, <<"--kind", "--skip-install">>, <<"--name", "demo", "--k3d">>, <<"-n">>}

\* trailing arguments given to `plan --command generate`
PlanGenerateArgs ==
    {<<>>, <<"--service", "api">>, <<"--all", "--force">>, <<"--force", "-s", "web">>}

\* the commands plan_command knows, and one it does not
PlanCommands == {"install", "deploy", "destroy", "update", "bootstrap", "generate", "frobnicate"}

PlanArgs(command) ==
    CASE command = "install" -> PlanInstallArgs
      [] command = "deploy" -> PlanDeployArgs
      [] command = "destroy" -> PlanDestroyArgs
      [] command = "update" -> PlanUpdateArgs
      [] command = "bootstrap" -> PlanBootstrapArgs
      [] command = "generate" -> PlanGenerateArgs
      [] OTHER -> {<<>>}

PlanOpts ==
    UNION {{[DefaultOpts EXCEPT !.command = c, !.verbose = v, !.args = a] :
               v \in BOOLEAN, a \in PlanArgs(c)} : c \in PlanCommands}

\* the project directories a plan of the command may look at
PlanDirs(command) ==
    CASE command = "deploy" -> ProjectDirs
      [] command = "destroy" -> ServiceDirs
      [] command = "generate" -> {WithConfig(EmptyDir, y) : y \in ConfigDocs}
      [] OTHER -> {EmptyDir}

----------------------------------------------------------------------------
(* The invocation *)

Init ==
    /\ \/ /\ cmd = "install"
          /\ opts \in InstallOpts
          /\ toggles \in SUBSET {"HELM"}
          /\ fs \in InstallDirs
          /\ cluster = NoCluster
       \/ /\ cmd = "destroy"
          /\ opts \in DestroyOpts
          /\ toggles \in SUBSET {"HELM"}
          /\ fs \in ServiceDirs
          /\ cluster = NoCluster
       \/ /\ cmd = "deploy"
          /\ opts \in DeployOpts
          /\ toggles \in SUBSET {"HELM", "DOCKER", "KUBECTL"}
          /\ fs \in DeployDirs
          /\ cluster = NoCluster
       \/ /\ cmd = "update"
          /\ opts \in UpdateOpts
          /\ toggles \in SUBSET {"HELM"}
          /\ fs \in UpdateDirs
          /\ cluster \in IF "HELM" \in toggles THEN {NoCluster} ELSE Clusters
       \/ /\ cmd = "init"
          /\ opts \in InitOpts
          /\ toggles = {}
          /\ fs \in InitDirs(opts)
          /\ cluster = NoCluster
       \/ /\ cmd = "generate"
          /\ opts \in GenerateOpts
          /\ toggles = {}
          /\ fs \in GenerateDirs
          /\ cluster = NoCluster
       \/ /\ cmd = "bootstrap"
          /\ opts \in BootstrapOpts
          /\ toggles \in SUBSET {"CLUSTER", "KUBECTL", "HELM"}
          /\ fs = EmptyDir
          /\ cluster = NoCluster
       \/ /\ cmd = "validate"
          /\ opts \in ValidateOpts
          /\ toggles \in SUBSET {"KUBECTL"}
          /\ fs \in ValidateDirs
          /\ cluster = NoCluster
       \/ /\ cmd = "plan"
          /\ opts \in PlanOpts
          /\ toggles \in SUBSET {"HELM"}
          /\ fs \in PlanDirs(opts.command)
          /\ cluster = NoCluster
    /\ ctx = [config |-> FALSE, loaded |-> Err.config, kube_context |-> None, dry_run |-> FALSE]
    /\ pc = "main"
    /\ idx = 0
    /\ targets = <<>>
    /\ updates = <<>>
    /\ calls = <<>>
    /\ out = <<>>
    /\ writes = <<>>
    /\ err = NoError

\* return Err(e) out of main: the process exits nonzero
Fail(e) ==
    /\ pc' = "failed"
    /\ err' = e

\* a spawned process: its argument vector and whether it exited with success
Process(argv, ok) == [argv |-> argv, ok |-> ok]

\* run_command: spawn the process argv and wait for its exit status
Spawn(argv, ok) == calls' = Append(calls, Process(argv, ok))

\* the sub-directories of services/
ServiceDirNames == {fs.entries[i].name : i \in {j \in DOMAIN fs.entries : fs.entries[j].is_dir}}

\* Path::exists() on a path the invocation has no listing of may answer e:
\* the answer is the one given before, if any, and a file below
\* services/<svc> can exist only if that directory does
Exists(path, svc, e) ==
    /\ e \in BOOLEAN
    /\ path \in fs.found => e
    /\ path \in fs.missing => ~e
    /\ (svc # None /\ svc \notin ServiceDirNames) => ~e

\* the directory f with the answer e for path remembered
Seen(f, path, e) ==
    [f EXCEPT !.found = IF e THEN @ \cup {path} ELSE @,
              !.missing = IF e THEN @ ELSE @ \cup {path}]

\* MeshstackContext::new / new_dry_run
MeshstackContext_new(kube_context, dry_run) ==
    [config |-> load_config(fs.yaml).ok, loaded |-> load_config(fs.yaml).config,
     kube_context |-> kube_context, dry_run |-> dry_run]

\* main: build the context and dispatch on the subcommand
main ==
    /\ pc = "main"
    /\ \/ /\ cmd = "install"
          /\ ctx' = MeshstackContext_new(opts.context, opts.dry_run)
          /\ pc' = "install_component"
       \/ /\ cmd = "destroy"
          /\ ctx' = MeshstackContext_new(opts.context, FALSE)
          /\ pc' = "destroy_project"
       \/ /\ cmd = "deploy"
          /\ ctx' = MeshstackContext_new(opts.context, FALSE)
          /\ pc' = "deploy_service"
       \/ /\ cmd = "update"
          /\ ctx' = MeshstackContext_new(None, FALSE)
          /\ pc' = "update_project"
       \/ /\ cmd = "init"
          /\ UNCHANGED ctx
          /\ pc' = "init"
       \/ /\ cmd = "generate"
          /\ ctx' = MeshstackContext_new(None, FALSE)
          /\ pc' = "generate_scaffolds"
       \/ /\ cmd = "bootstrap"
          /\ UNCHANGED ctx
          /\ pc' = "bootstrap_local_cluster"
       \/ /\ cmd = "validate"
          /\ ctx' = MeshstackContext_new(None, FALSE)
          /\ pc' = "validate_config"
       \/ /\ cmd = "plan"
          /\ UNCHANGED ctx
          /\ pc' = "plan_command"
    /\ UNCHANGED <<writes, cluster, cmd, opts, toggles, fs, idx, targets, updates, calls, out, err>>

\* the arguments install_component is called with: those of the command
\* line from main, no component and the dev profile from
\* bootstrap_local_cluster
install_component_args ==
    IF cmd = "bootstrap"
    THEN [component |-> None, profile |-> "dev"]
    ELSE [component |-> opts.component, profile |-> opts.profile]

\* install_component: resolve the components to install
install_resolve ==
    /\ pc = "install_component"
    /\ IF components_to_install(install_component_args.component) = None
       THEN /\ Fail(UnknownComponent(install_component_args.component))
            /\ UNCHANGED targets
       ELSE /\ targets' = components_to_install(install_component_args.component)
            /\ pc' = "install_probe"
            /\ UNCHANGED err
    /\ UNCHANGED <<writes, cluster, cmd, opts, toggles, fs, ctx, idx, updates, calls, out>>

\* install_probe that goes on to the loop when helm version failed
install_probe_ignored ==
    /\ pc = "install_probe"
    /\ IF "HELM" \notin toggles
       THEN \E ok \in BOOLEAN : Spawn(<<"helm", "version">>, ok)
       ELSE UNCHANGED calls
    /\ pc' = "install_loop"
    /\ idx' = 1
    /\ UNCHANGED <<writes, cluster, cmd, opts, toggles, fs, ctx, targets, updates, out, err>>

\* install_component: check that helm is installed
install_probe ==
    /\ pc = "install_probe"
    /\ IF "HELM" \notin toggles
       THEN \E ok \in BOOLEAN :
              /\ Spawn(<<"helm", "version">>, ok)
              /\ IF ok
                 THEN pc' = "install_loop" /\ UNCHANGED err
                 ELSE Fail(Error("Helm is not installed or not found in PATH", None, <<>>))
       ELSE /\ pc' = "install_loop"
            /\ UNCHANGED <<calls, err>>
    /\ idx' = 1
    /\ UNCHANGED <<writes, cluster, cmd, opts, toggles, fs, ctx, targets, updates, out>>

\* install_component: one iteration of the loop over components_to_install
install_target ==
    /\ pc = "install_loop"
    /\ idx <= Len(targets)
    /\ LET profile == install_component_args.profile
           argv == install_command(targets[idx], profile, ctx)
       IN  IF profile # None /\ install_profile_error(profile) # NoError
           THEN /\ Fail(install_profile_error(profile))
                /\ UNCHANGED <<idx, calls, out>>
           ELSE IF "HELM" \in toggles
           THEN /\ out' = Append(out, DryRunLine(argv))
                /\ idx' = idx + 1
                /\ UNCHANGED <<pc, calls, err>>
           ELSE \E ok \in BOOLEAN :
                  /\ Spawn(argv, ok)
                  /\ UNCHANGED out
                  /\ IF ok
                     THEN idx' = idx + 1 /\ UNCHANGED <<pc, err>>
                     ELSE Fail(Error("command failed", targets[idx][1], <<>>)) /\ UNCHANGED idx
    /\ UNCHANGED <<writes, cluster, cmd, opts, toggles, fs, ctx, targets, updates>>

\* install_component: the loop is over, return Ok to main or to
\* bootstrap_local_cluster
install_return ==
    /\ pc = "install_loop"
    /\ idx > Len(targets)
    /\ pc' = IF cmd = "bootstrap" THEN "bootstrap_return" ELSE "done"
    /\ UNCHANGED <<writes, cluster, cmd, opts, toggles, fs, ctx, idx, targets, updates, calls, out, err>>

----------------------------------------------------------------------------
(* destroy *)

\* infra_components with vault left out, as in the default install set
infra_components_without_vault == <<"istio", "prometheus", "grafana", "cert-manager", "nginx-ingress">>

\* destroy_project: let infra_components = vec![...]
infra_components == <<"istio", "prometheus", "grafana", "cert-manager", "nginx-ingress", "vault">>

\* service_release without the prefix
service_release_bare(svc) == svc

\* format!("meshstack-{}", svc)
service_release(svc) == "meshstack-" \o svc

uninstall_command(release_name, c) ==
    <<"helm", "uninstall", release_name>> \o add_kube_context_args(c)

\* uninstall_helm_release whose failure is reported and the batch goes on
uninstall_helm_release_continues(release_name, p, i) ==
    LET argv == uninstall_command(release_name, ctx)
    IN  IF "HELM" \in toggles
        THEN /\ out' = Append(out, DryRunLine(argv))
             /\ pc' = p /\ idx' = i
             /\ UNCHANGED <<calls, err>>
        ELSE \E ok \in BOOLEAN :
               /\ Spawn(argv, ok)
               /\ out' = IF ok THEN out ELSE Append(out, <<"uninstall failed", release_name>>)
               /\ pc' = p /\ idx' = i /\ UNCHANGED err

\* uninstall_helm_release(release_name, ctx)?; on Ok go on at position p
\* with loop index i
uninstall_helm_release(release_name, p, i) ==
    LET argv == uninstall_command(release_name, ctx)
    IN  IF "HELM" \in toggles
        THEN /\ out' = Append(out, DryRunLine(argv))
             /\ pc' = p /\ idx' = i
             /\ UNCHANGED <<calls, err>>
        ELSE \E ok \in BOOLEAN :
               /\ Spawn(argv, ok)
               /\ UNCHANGED out
               /\ IF ok
                  THEN pc' = p /\ idx' = i /\ UNCHANGED err
                  ELSE Fail(Error("command failed", release_name, <<>>)) /\ UNCHANGED idx

destroy_full == opts.full \/ opts.all

NotConfirmedNotice == <<"Dry run complete. No resources were destroyed. Use --confirm to proceed.">>

\* destroy_gate with a confirmation check that forgets the full teardown
destroy_gate_forgets_full ==
    /\ pc = "destroy_project"
    /\ IF ~opts.confirm /\ (opts.service # None \/ opts.component # None)
       THEN /\ out' = Append(out, NotConfirmedNotice)
            /\ pc' = "done"
       ELSE /\ pc' = "destroy_service"
            /\ UNCHANGED out
    /\ UNCHANGED <<writes, cluster, cmd, opts, toggles, fs, ctx, idx, targets, updates, calls, err>>

\* destroy_project: the confirmation check
destroy_gate ==
    /\ pc = "destroy_project"
    /\ IF ~opts.confirm /\ (opts.service # None \/ opts.component # None \/ destroy_full)
       THEN /\ out' = Append(out, NotConfirmedNotice)
            /\ pc' = "done"
       ELSE /\ pc' = "destroy_service"
            /\ UNCHANGED out
    /\ UNCHANGED <<writes, cluster, cmd, opts, toggles, fs, ctx, idx, targets, updates, calls, err>>

\* destroy_project: if let Some(svc) = service
destroy_service ==
    /\ pc = "destroy_service"
    /\ IF opts.service # None
       THEN uninstall_helm_release(service_release(opts.service), "destroy_component", idx)
       ELSE pc' = "destroy_component" /\ UNCHANGED <<idx, calls, out, err>>
    /\ UNCHANGED <<writes, cluster, cmd, opts, toggles, fs, ctx, targets, updates>>

\* destroy_project: if let Some(comp) = component
destroy_component ==
    /\ pc = "destroy_component"
    /\ IF opts.component # None
       THEN uninstall_helm_release(opts.component,
                IF destroy_full THEN "destroy_infra" ELSE "destroy_return", 1)
       ELSE /\ pc' = IF destroy_full THEN "destroy_infra" ELSE "destroy_return"
            /\ idx' = 1
            /\ UNCHANGED <<calls, out, err>>
    /\ UNCHANGED <<writes, cluster, cmd, opts, toggles, fs, ctx, targets, updates>>

\* destroy_project, destroy_full: one iteration over infra_components;
\* after the last one the loop over services/ starts, if services/ exists
destroy_infra ==
    /\ pc = "destroy_infra"
    /\ IF idx <= Len(infra_components)
       THEN uninstall_helm_release(infra_components[idx], "destroy_infra", idx + 1)
       ELSE /\ pc' = IF fs.services THEN "destroy_services" ELSE "destroy_return"
            /\ idx' = 1
            /\ UNCHANGED <<calls, out, err>>
    /\ UNCHANGED <<writes, cluster, cmd, opts, toggles, fs, ctx, targets, updates>>

\* destroy_project, destroy_full: one iteration over read_dir(services/)
destroy_services ==
    /\ pc = "destroy_services"
    /\ IF idx <= Len(fs.entries)
       THEN IF fs.entries[idx].is_dir
            THEN uninstall_helm_release(service_release(fs.entries[idx].name),
                                        "destroy_services", idx + 1)
            ELSE /\ idx' = idx + 1
                 /\ UNCHANGED <<pc, calls, out, err>>
       ELSE /\ pc' = "destroy_return"
            /\ UNCHANGED <<idx, calls, out, err>>
    /\ UNCHANGED <<writes, cluster, cmd, opts, toggles, fs, ctx, targets, updates>>

\* destroy_project: the closing message, return Ok
destroy_return ==
    /\ pc = "destroy_return"
    /\ out' = IF opts.confirm
              THEN Append(out, <<"Confirmation received. Proceeding with destruction.">>)
              ELSE out
    /\ pc' = "done"
    /\ UNCHANGED <<writes, cluster, cmd, opts, toggles, fs, ctx, idx, targets, updates, calls, err>>

----------------------------------------------------------------------------
(* deploy *)

ConfigMissing == Error("meshstack.yaml not found or invalid", None, <<>>)

\* services_dir.join(svc_name)
service_path(svc) == "services/" \o svc

\* format!("meshstack/{}:latest", service_name)
image_name(svc) == "meshstack/" \o svc \o ":latest"

\* deploy_service: let services_to_deploy = ...
services_to_deploy(service_name) ==
    IF service_name # None
    THEN <<service_name>>
    ELSE LET dirs == SelectSeq(fs.entries, LAMBDA e : e.is_dir)
         IN  [i \in DOMAIN dirs |-> dirs[i].name]

\* deploy_resolve that takes a missing services/ for an empty one
deploy_resolve_lenient ==
    /\ pc = "deploy_service"
    /\ IF ~ctx.config
       THEN Fail(ConfigMissing) /\ UNCHANGED <<targets, idx, out>>
       ELSE /\ targets' = services_to_deploy(opts.service)
            /\ idx' = 1
            /\ UNCHANGED err
            /\ IF targets' = <<>>
               THEN out' = Append(out, <<"No services found to deploy.">>) /\ pc' = "done"
               ELSE UNCHANGED out /\ pc' = "deploy_build"
    /\ UNCHANGED <<writes, cluster, cmd, opts, toggles, fs, ctx, updates, calls>>

\* deploy_service: up to the loop over services_to_deploy
deploy_resolve ==
    /\ pc = "deploy_service"
    /\ IF ~ctx.config
       THEN Fail(ConfigMissing) /\ UNCHANGED <<targets, idx, out>>
       ELSE IF ~fs.services
       THEN /\ Fail(Error("Services directory not found", None, <<>>))
            /\ UNCHANGED <<targets, idx, out>>
       ELSE /\ targets' = services_to_deploy(opts.service)
            /\ idx' = 1
            /\ UNCHANGED err
            /\ IF targets' = <<>>
               THEN out' = Append(out, <<"No services found to deploy.">>) /\ pc' = "done"
               ELSE UNCHANGED out /\ pc' = "deploy_build"
    /\ UNCHANGED <<writes, cluster, cmd, opts, toggles, fs, ctx, updates, calls>>

\* deploy_service: the loop is over, return Ok
deploy_return ==
    /\ pc = "deploy_build"
    /\ idx > Len(targets)
    /\ pc' = "done"
    /\ UNCHANGED <<writes, cluster, cmd, opts, toggles, fs, ctx, idx, targets, updates, calls, out, err>>

\* deploy_service: if build { build_docker_image(..)? }
build_docker_image ==
    /\ pc = "deploy_build"
    /\ idx <= Len(targets)
    /\ LET svc == targets[idx]
           argv == <<"docker", "build", "-t", image_name(svc), service_path(svc)>>
       IN  IF ~opts.build
           THEN pc' = "deploy_push" /\ UNCHANGED <<fs, calls, out, err>>
           ELSE \E e \in BOOLEAN :
                  /\ Exists(service_path(svc) \o "/Dockerfile", svc, e)
                  /\ fs' = Seen(fs, service_path(svc) \o "/Dockerfile", e)
                  /\ IF ~e
                     THEN /\ Fail(Error("Dockerfile not found", service_path(svc), <<>>))
                          /\ UNCHANGED <<calls, out>>
                     ELSE IF "DOCKER" \in toggles
                     THEN /\ out' = Append(out, DryRunLine(argv))
                          /\ pc' = "deploy_push"
                          /\ UNCHANGED <<calls, err>>
                     ELSE \E ok \in BOOLEAN :
                            /\ Spawn(argv, ok)
                            /\ UNCHANGED out
                            /\ IF ok
                               THEN pc' = "deploy_push" /\ UNCHANGED err
                               ELSE Fail(Error("command failed", "docker build", <<>>))
    /\ UNCHANGED <<writes, cluster, cmd, opts, toggles, ctx, idx, targets, updates>>

\* push_docker_image called whether or not --push is given
push_docker_image_unflagged ==
    /\ pc = "deploy_push"
    /\ LET svc == targets[idx]
           argv == <<"docker", "push", image_name(svc)>>
       IN  IF "DOCKER" \in toggles
           THEN /\ out' = Append(out, DryRunLine(argv))
                /\ pc' = "deploy_helm"
                /\ UNCHANGED <<calls, err>>
           ELSE \E ok \in BOOLEAN :
                  /\ Spawn(argv, ok)
                  /\ UNCHANGED out
                  /\ IF ok
                     THEN pc' = "deploy_helm" /\ UNCHANGED err
                     ELSE Fail(Error("command failed", "docker push", <<>>))
    /\ UNCHANGED <<writes, cluster, cmd, opts, toggles, fs, ctx, idx, targets, updates>>

\* deploy_service: if push { push_docker_image(..)? }
push_docker_image ==
    /\ pc = "deploy_push"
    /\ LET svc == targets[idx]
           argv == <<"docker", "push", image_name(svc)>>
       IN  IF ~opts.push
           THEN pc' = "deploy_helm" /\ UNCHANGED <<calls, out, err>>
           ELSE IF "DOCKER" \in toggles
           THEN /\ out' = Append(out, DryRunLine(argv))
                /\ pc' = "deploy_helm"
                /\ UNCHANGED <<calls, err>>
           ELSE \E ok \in BOOLEAN :
                  /\ Spawn(argv, ok)
                  /\ UNCHANGED out
                  /\ IF ok
                     THEN pc' = "deploy_helm" /\ UNCHANGED err
                     ELSE Fail(Error("command failed", "docker push", <<>>))
    /\ UNCHANGED <<writes, cluster, cmd, opts, toggles, fs, ctx, idx, targets, updates>>

\* deploy_helm_chart: the match on the environment; None stands for the bail arm
deploy_values_file(e) ==
    CASE e = "dev" -> "dev-values.yaml"
      [] e = "prod" -> "prod-values.yaml"
      [] e = "staging" -> "staging-values.yaml"
      [] OTHER -> None

UnknownEnvironment(e) == Error("Unknown environment", e, <<"dev", "prod", "staging">>)

\* the helm command deploy_helm_chart builds; with_values: the values file
\* of the environment exists
deploy_command(svc, env, c, with_values) ==
    <<"helm", "upgrade", "--install", service_release(svc), service_path(svc)>>
        \o add_kube_context_args(c)
        \o (IF env # None /\ with_values THEN <<"--values", deploy_values_file(env)>> ELSE <<>>)

\* deploy_service: the helm step of one service, skipped under any test toggle
deploy_helm_chart ==
    /\ pc = "deploy_helm"
    /\ LET svc == targets[idx]
       IN  IF toggles \cap {"HELM", "DOCKER", "KUBECTL"} # {}
           THEN /\ pc' = "deploy_build" /\ idx' = idx + 1
                /\ UNCHANGED <<fs, calls, out, err>>
           ELSE \E chart \in BOOLEAN :
                  /\ Exists(service_path(svc) \o "/Chart.yaml", svc, chart)
                  /\ IF ~chart
                     THEN /\ Fail(Error("Helm chart (Chart.yaml) not found", service_path(svc), <<>>))
                          /\ fs' = Seen(fs, service_path(svc) \o "/Chart.yaml", chart)
                          /\ UNCHANGED <<idx, calls, out>>
                     ELSE IF opts.env # None /\ deploy_values_file(opts.env) = None
                     THEN /\ Fail(UnknownEnvironment(opts.env))
                          /\ fs' = Seen(fs, service_path(svc) \o "/Chart.yaml", chart)
                          /\ UNCHANGED <<idx, calls, out>>
                     ELSE \E v \in BOOLEAN :
                            /\ opts.env # None => Exists(deploy_values_file(opts.env), None, v)
                            /\ opts.env = None => v
                            /\ fs' = IF opts.env # None
                                     THEN Seen(Seen(fs, service_path(svc) \o "/Chart.yaml", chart),
                                               deploy_values_file(opts.env), v)
                                     ELSE Seen(fs, service_path(svc) \o "/Chart.yaml", chart)
                            /\ LET argv == deploy_command(svc, opts.env, ctx, v)
                                   warned == IF opts.env # None /\ ~v
                                             THEN Append(out, <<"Warning: Environment values file not found. Skipping.",
                                                                deploy_values_file(opts.env)>>)
                                             ELSE out
                               IN  IF "HELM" \in toggles
                                   THEN /\ out' = Append(warned, DryRunLine(argv))
                                        /\ pc' = "deploy_build" /\ idx' = idx + 1
                                        /\ UNCHANGED <<calls, err>>
                                   ELSE \E ok \in BOOLEAN :
                                          /\ Spawn(argv, ok)
                                          /\ out' = warned
                                          /\ IF ok
                                             THEN pc' = "deploy_build" /\ idx' = idx + 1 /\ UNCHANGED err
                                             ELSE Fail(Error("command failed", service_release(svc), <<>>))
                                                  /\ UNCHANGED idx
    /\ UNCHANGED <<writes, cluster, cmd, opts, toggles, ctx, targets, updates>>

----------------------------------------------------------------------------
(* update *)

\* check_chart_name with a placeholder chart for an unknown component
check_chart_name_placeholder(component) ==
    CASE component = "istio" -> "istio/istio"
      [] component = "prometheus" -> "prometheus-community/prometheus"
      [] component = "grafana" -> "grafana/grafana"
      [] component = "cert-manager" -> "cert-manager/cert-manager"
      [] component = "nginx-ingress" -> "ingress-nginx/ingress-nginx"
      [] component = "vault" -> "hashicorp/vault"
      [] OTHER -> "unknown/unknown"

\* check_component_updates: the chart of a component; None stands for bail
check_chart_name(component) ==
    CASE component = "istio" -> "istio/istio"
      [] component = "prometheus" -> "prometheus-community/prometheus"
      [] component = "grafana" -> "grafana/grafana"
      [] component = "cert-manager" -> "cert-manager/cert-manager"
      [] component = "nginx-ingress" -> "ingress-nginx/ingress-nginx"
      [] component = "vault" -> "hashicorp/vault"
      [] OTHER -> None

\* check_infrastructure_updates: let components = vec![...]
infra_update_components ==
    << <<"istio", "istio/istio">>,
       <<"prometheus", "prometheus-community/prometheus">>,
       <<"grafana", "grafana/grafana">>,
       <<"cert-manager", "cert-manager/cert-manager">>,
       <<"nginx-ingress", "ingress-nginx/ingress-nginx">> >>

UpdateInfo(name, current, latest, type, chart) ==
    [name |-> name, current_version |-> current, latest_version |-> latest,
     update_type |-> type, chart_name |-> chart]

HelmChartUpdate(component, chart) == UpdateInfo(component, "1.0.0", "1.1.0", "HelmChart", chart)

\* check_helm_chart_update that reports the update of a component whose
\* repository query failed
check_helm_chart_update_trusts_failed_search(component, chart, c) ==
    LET list == <<"helm", "list", "--filter", component, "--output", "json">>
                    \o add_kube_context_args(c)
        search == <<"helm", "search", "repo", chart, "--output", "json">>
        Outcome(cs, o, u) == [calls |-> cs, out |-> o, updates |-> u]
    IN  IF "HELM" \in toggles
        THEN Outcome(<<>>, <<>>, <<HelmChartUpdate(component, chart)>>)
        ELSE IF cluster.down
        THEN Outcome(<<Process(list, FALSE)>>, <<>>, <<>>)
        ELSE IF component \notin cluster.releases
        THEN Outcome(<<Process(list, TRUE)>>, <<>>, <<>>)
        ELSE IF chart \in cluster.norepo
        THEN Outcome(<<Process(list, TRUE), Process(search, FALSE)>>,
                     << <<"Warning: Could not check updates - repository might not be added", component>> >>,
                     <<HelmChartUpdate(component, chart)>>)
        ELSE IF chart \in cluster.unlisted
        THEN Outcome(<<Process(list, TRUE), Process(search, TRUE)>>, <<>>, <<>>)
        ELSE Outcome(<<Process(list, TRUE), Process(search, TRUE)>>, <<>>,
                     <<HelmChartUpdate(component, chart)>>)

\* check_helm_chart_update that goes on to the repository query when helm
\* list finds no release
check_helm_chart_update_ignores_list(component, chart, c) ==
    LET list == <<"helm", "list", "--filter", component, "--output", "json">>
                    \o add_kube_context_args(c)
        search == <<"helm", "search", "repo", chart, "--output", "json">>
        Outcome(cs, o, u) == [calls |-> cs, out |-> o, updates |-> u]
    IN  IF "HELM" \in toggles
        THEN Outcome(<<>>, <<>>, <<HelmChartUpdate(component, chart)>>)
        ELSE IF cluster.down
        THEN Outcome(<<Process(list, FALSE)>>, <<>>, <<>>)
        ELSE IF chart \in cluster.norepo
        THEN Outcome(<<Process(list, TRUE), Process(search, FALSE)>>,
                     << <<"Warning: Could not check updates - repository might not be added", component>> >>,
                     <<>>)
        ELSE IF chart \in cluster.unlisted
        THEN Outcome(<<Process(list, TRUE), Process(search, TRUE)>>, <<>>, <<>>)
        ELSE Outcome(<<Process(list, TRUE), Process(search, TRUE)>>, <<>>,
                     <<HelmChartUpdate(component, chart)>>)

\* check_helm_chart_update: the processes the check of one component spawns,
\* the lines it prints and the updates it reports
check_helm_chart_update(component, chart, c) ==
    LET list == <<"helm", "list", "--filter", component, "--output", "json">>
                    \o add_kube_context_args(c)
        search == <<"helm", "search", "repo", chart, "--output", "json">>
        Outcome(cs, o, u) == [calls |-> cs, out |-> o, updates |-> u]
    IN  IF "HELM" \in toggles
        THEN Outcome(<<>>, <<>>, <<HelmChartUpdate(component, chart)>>)
        ELSE IF cluster.down
        THEN Outcome(<<Process(list, FALSE)>>, <<>>, <<>>)
        ELSE IF component \notin cluster.releases
        THEN Outcome(<<Process(list, TRUE)>>, <<>>, <<>>)
        ELSE IF chart \in cluster.norepo
        THEN Outcome(<<Process(list, TRUE), Process(search, FALSE)>>,
                     << <<"Warning: Could not check updates - repository might not be added", component>> >>,
                     <<>>)
        ELSE IF chart \in cluster.unlisted
        THEN Outcome(<<Process(list, TRUE), Process(search, TRUE)>>, <<>>, <<>>)
        ELSE Outcome(<<Process(list, TRUE), Process(search, TRUE)>>, <<>>,
                     <<HelmChartUpdate(component, chart)>>)

\* check_template_updates
check_template_updates ==
    IF fs.templates
    THEN <<UpdateInfo("base-templates", "0.1.0", "0.1.1", "Template", None)>>
    ELSE <<>>

upgrade_command(update, c) ==
    <<"helm", "upgrade", update.name, update.chart_name, "--version", update.latest_version>>
        \o add_kube_context_args(c)

\* update_project: require_config and the choice of the flow
update_start ==
    /\ pc = "update_project"
    /\ IF ~ctx.config
       THEN Fail(ConfigMissing)
       ELSE /\ pc' = IF opts.check \/ opts.apply
                     THEN IF opts.component # None THEN "check_component" ELSE "check_infra"
                     ELSE "only_component"
            /\ UNCHANGED err
    /\ idx' = 1
    /\ updates' = <<>>
    /\ UNCHANGED <<writes, cluster, cmd, opts, toggles, fs, ctx, targets, calls, out>>

\* check_component_updates, called from the check phase or without
\* --check and --apply
check_component_updates ==
    /\ pc \in {"check_component", "only_component"}
    /\ IF opts.component = None
       THEN /\ pc' = "only_template"
            /\ UNCHANGED <<updates, calls, out, err>>
       ELSE IF check_chart_name(opts.component) = None
       THEN /\ Fail(UnknownComponent(opts.component))
            /\ UNCHANGED <<updates, calls, out>>
       ELSE LET o == check_helm_chart_update(opts.component, check_chart_name(opts.component), ctx)
            IN
              /\ calls' = calls \o o.calls
              /\ out' = out \o o.out
              /\ updates' = o.updates
              /\ pc' = IF pc = "check_component" THEN "check_done" ELSE "only_component_apply"
              /\ UNCHANGED err
    /\ idx' = 1
    /\ UNCHANGED <<writes, cluster, cmd, opts, toggles, fs, ctx, targets>>

\* check_infrastructure_updates: one iteration of its loop, called from the
\* check phase or without --check and --apply
check_infrastructure_updates ==
    /\ pc \in {"check_infra", "only_infra"}
    /\ IF pc = "check_infra" /\ ~(opts.infra \/ (~opts.template /\ ~opts.infra))
       THEN pc' = "check_template" /\ UNCHANGED <<idx, updates, calls, out>>
       ELSE IF pc = "only_infra" /\ ~opts.infra
       THEN pc' = "update_return" /\ UNCHANGED <<idx, updates, calls, out>>
       ELSE IF idx <= Len(infra_update_components)
       THEN LET o == check_helm_chart_update(infra_update_components[idx][1],
                                              infra_update_components[idx][2], ctx)
            IN
              /\ calls' = calls \o o.calls
              /\ out' = out \o o.out
              /\ updates' = updates \o o.updates
              /\ idx' = idx + 1
              /\ UNCHANGED pc
       ELSE /\ pc' = IF pc = "check_infra" THEN "check_template" ELSE "only_infra_apply"
            /\ idx' = 1
            /\ UNCHANGED <<updates, calls, out>>
    /\ UNCHANGED <<writes, cluster, cmd, opts, toggles, fs, ctx, targets, err>>

\* check_template_updates, called from the check phase or without --check
\* and --apply
check_templates ==
    /\ pc \in {"check_template", "only_template"}
    /\ IF pc = "check_template"
       THEN /\ updates' = IF opts.template \/ (~opts.template /\ ~opts.infra)
                          THEN updates \o check_template_updates
                          ELSE updates
            /\ pc' = "check_done"
       ELSE IF opts.template
            THEN updates' = check_template_updates /\ pc' = "only_template_apply"
            ELSE updates' = <<>> /\ pc' = "only_infra"
    /\ idx' = 1
    /\ UNCHANGED <<writes, cluster, cmd, opts, toggles, fs, ctx, targets, calls, out, err>>

\* check_done with the apply phase entered whether or not --apply is given
check_done_applies ==
    /\ pc = "check_done"
    /\ IF updates = <<>>
       THEN /\ out' = Append(out, <<"All components are up to date!">>)
            /\ pc' = "done"
       ELSE /\ out' = out \o [i \in DOMAIN updates |-> <<"Available update", updates[i].name>>]
            /\ pc' = "apply"
    /\ idx' = 1
    /\ UNCHANGED <<writes, cluster, cmd, opts, toggles, fs, ctx, targets, updates, calls, err>>

\* update_project: the end of the check phase
check_done ==
    /\ pc = "check_done"
    /\ IF updates = <<>>
       THEN /\ out' = Append(out, <<"All components are up to date!">>)
            /\ pc' = "done"
       ELSE /\ out' = out \o [i \in DOMAIN updates |-> <<"Available update", updates[i].name>>]
            /\ pc' = IF opts.apply THEN "apply" ELSE "update_return"
    /\ idx' = 1
    /\ UNCHANGED <<writes, cluster, cmd, opts, toggles, fs, ctx, targets, updates, calls, err>>

\* the position after the loop that applies a list of updates
AfterApply(p) ==
    CASE p = "apply" -> "update_return"
      [] p = "only_component_apply" -> "only_template"
      [] p = "only_template_apply" -> "only_infra"
      [] p = "only_infra_apply" -> "update_return"

\* apply_update without the ? on apply_helm_chart_update: the loop goes on
\* after an upgrade that failed
apply_update_unchecked ==
    /\ pc \in {"apply", "only_component_apply", "only_template_apply", "only_infra_apply"}
    /\ updates' = IF idx > Len(updates) /\ pc # "apply" THEN <<>> ELSE updates
    /\ IF idx > Len(updates)
       THEN /\ pc' = AfterApply(pc)
            /\ idx' = 1
            /\ out' = IF pc = "apply" THEN Append(out, <<"All updates applied successfully!">>) ELSE out
            /\ UNCHANGED <<calls, writes, err>>
       ELSE LET update == updates[idx]
                helm == IF pc = "apply" THEN update.update_type = "HelmChart"
                        ELSE pc # "only_template_apply"
            IN  IF helm
                THEN IF update.chart_name = None
                     THEN /\ Fail(Error("Chart name not specified", update.name, <<>>))
                          /\ UNCHANGED <<idx, calls, out, writes>>
                     ELSE IF "HELM" \in toggles
                     THEN /\ out' = Append(out, DryRunLine(upgrade_command(update, ctx)))
                          /\ idx' = idx + 1
                          /\ UNCHANGED <<pc, calls, writes, err>>
                     ELSE \E ok \in BOOLEAN :
                            /\ Spawn(upgrade_command(update, ctx), ok)
                            /\ UNCHANGED <<out, writes>>
                            /\ idx' = idx + 1
                            /\ UNCHANGED <<pc, err>>
                ELSE /\ IF fs.templates
                        THEN /\ writes' = Append(writes, <<"copy_dir_all", "templates/base", ".">>)
                             /\ out' = Append(out, <<"Successfully updated base templates">>)
                        ELSE /\ out' = Append(out, <<"Warning: Template source not found, skipping template update">>)
                             /\ UNCHANGED writes
                     /\ idx' = idx + 1
                     /\ UNCHANGED <<pc, calls, err>>
    /\ UNCHANGED <<cluster, cmd, opts, toggles, fs, ctx, targets>>

\* apply_helm_chart_update / apply_template_update: one iteration of a loop
\* that applies updates
apply_update ==
    /\ pc \in {"apply", "only_component_apply", "only_template_apply", "only_infra_apply"}
    /\ updates' = IF idx > Len(updates) /\ pc # "apply" THEN <<>> ELSE updates
    /\ IF idx > Len(updates)
       THEN /\ pc' = AfterApply(pc)
            /\ idx' = 1
            /\ out' = IF pc = "apply" THEN Append(out, <<"All updates applied successfully!">>) ELSE out
            /\ UNCHANGED <<calls, writes, err>>
       ELSE LET update == updates[idx]
                helm == IF pc = "apply" THEN update.update_type = "HelmChart"
                        ELSE pc # "only_template_apply"
            IN  IF helm
                THEN IF update.chart_name = None
                     THEN /\ Fail(Error("Chart name not specified", update.name, <<>>))
                          /\ UNCHANGED <<idx, calls, out, writes>>
                     ELSE IF "HELM" \in toggles
                     THEN /\ out' = Append(out, DryRunLine(upgrade_command(update, ctx)))
                          /\ idx' = idx + 1
                          /\ UNCHANGED <<pc, calls, writes, err>>
                     ELSE \E ok \in BOOLEAN :
                            /\ Spawn(upgrade_command(update, ctx), ok)
                            /\ UNCHANGED <<out, writes>>
                            /\ IF ok
                               THEN idx' = idx + 1 /\ UNCHANGED <<pc, err>>
                               ELSE Fail(Error("command failed", update.name, <<>>)) /\ UNCHANGED idx
                ELSE /\ IF fs.templates
                        THEN /\ writes' = Append(writes, <<"copy_dir_all", "templates/base", ".">>)
                             /\ out' = Append(out, <<"Successfully updated base templates">>)
                        ELSE /\ out' = Append(out, <<"Warning: Template source not found, skipping template update">>)
                             /\ UNCHANGED writes
                     /\ idx' = idx + 1
                     /\ UNCHANGED <<pc, calls, err>>
    /\ UNCHANGED <<cluster, cmd, opts, toggles, fs, ctx, targets>>

\* update_project: return Ok
update_return ==
    /\ pc = "update_return"
    /\ pc' = "done"
    /\ UNCHANGED <<writes, cluster, cmd, opts, toggles, fs, ctx, idx, targets, updates, calls, out, err>>

----------------------------------------------------------------------------
(* bootstrap *)

\* the choice of the tool with --kind tested before --k3d
bootstrap_cluster_tool_kind_first(use_kind, use_k3d) ==
    IF use_kind THEN "kind" ELSE IF use_k3d THEN "k3d" ELSE "kind"

\* bootstrap_local_cluster: let cluster_tool = ...
bootstrap_cluster_tool(use_kind, use_k3d) == IF use_k3d THEN "k3d" ELSE "kind"

\* the tool of this invocation
BootstrapTool == bootstrap_cluster_tool(opts.bootstrap.kind, opts.bootstrap.k3d)

\* set_kubectl_context: let context_name = ...
context_name(tool, cluster_name) == tool \o "-" \o cluster_name

\* bootstrap_local_cluster: let cluster_context = ...
cluster_context(tool, cluster_name) == tool \o "-" \o cluster_name

\* cluster_exists: the command that lists the clusters
list_clusters_command(tool) ==
    IF tool = "kind"
    THEN <<"kind", "get", "clusters">>
    ELSE <<"k3d", "cluster", "list", "--output", "json">>

\* create_cluster: the command that creates the cluster
create_cluster_command(tool, cluster_name) ==
    IF tool = "kind"
    THEN <<"kind", "create", "cluster", "--name", cluster_name>>
    ELSE <<"k3d", "cluster", "create", cluster_name,
           "--port", "80:80@loadbalancer", "--port", "443:443@loadbalancer">>

ToolUnavailable(tool) == Error("is not installed or not found in PATH", tool, <<>>)

\* check_cluster_tool_installed without the ? of its caller: the failure of
\* the version probe is dropped
check_cluster_tool_installed_unchecked ==
    /\ pc = "bootstrap_local_cluster"
    /\ IF "CLUSTER" \in toggles
       THEN /\ out' = Append(out, <<"DRY RUN: Would check if installed", BootstrapTool>>)
            /\ UNCHANGED calls
       ELSE \E ok \in BOOLEAN :
              /\ Spawn(<<BootstrapTool, "version">>, ok)
              /\ UNCHANGED out
    /\ pc' = "cluster_exists"
    /\ UNCHANGED <<writes, cluster, cmd, opts, toggles, fs, ctx, idx, targets, updates, err>>

\* bootstrap_local_cluster: check_cluster_tool_installed(cluster_tool)?
check_cluster_tool_installed ==
    /\ pc = "bootstrap_local_cluster"
    /\ IF "CLUSTER" \in toggles
       THEN /\ out' = Append(out, <<"DRY RUN: Would check if installed", BootstrapTool>>)
            /\ pc' = "cluster_exists"
            /\ UNCHANGED <<calls, err>>
       ELSE \E ok \in BOOLEAN :
              /\ Spawn(<<BootstrapTool, "version">>, ok)
              /\ UNCHANGED out
              /\ IF ok
                 THEN pc' = "cluster_exists" /\ UNCHANGED err
                 ELSE Fail(ToolUnavailable(BootstrapTool))
    /\ UNCHANGED <<writes, cluster, cmd, opts, toggles, fs, ctx, idx, targets, updates>>

\* cluster_exists with its answer dropped by the caller: the cluster is
\* created whatever the list says
cluster_exists_ignored ==
    /\ pc = "cluster_exists"
    /\ LET name == opts.bootstrap.name
       IN  IF "CLUSTER" \in toggles
           THEN /\ out' = Append(out, <<"DRY RUN: Would check if cluster exists", name>>)
                /\ UNCHANGED calls
           ELSE \E ok, listed \in BOOLEAN :
                  /\ ok \/ ~listed
                  /\ Spawn(list_clusters_command(BootstrapTool), ok)
                  /\ out' = out \o (IF ~ok
                                    THEN << <<"Could not list clusters, assuming it does not exist", name>> >>
                                    ELSE IF listed
                                    THEN << <<"Cluster already exists", name>> >>
                                    ELSE << <<"Cluster does not exist", name>> >>)
    /\ pc' = "create_cluster"
    /\ UNCHANGED <<writes, cluster, cmd, opts, toggles, fs, ctx, idx, targets, updates, err>>

\* bootstrap_local_cluster: if cluster_exists(cluster_tool, cluster_name)?;
\* listed: the output of the list command contains the cluster name
cluster_exists ==
    /\ pc = "cluster_exists"
    /\ LET name == opts.bootstrap.name
       IN  IF "CLUSTER" \in toggles
           THEN /\ out' = Append(out, <<"DRY RUN: Would check if cluster exists", name>>)
                /\ pc' = "create_cluster"
                /\ UNCHANGED calls
           ELSE \E ok, listed \in BOOLEAN :
                  /\ ok \/ ~listed
                  /\ Spawn(list_clusters_command(BootstrapTool), ok)
                  /\ out' = out \o (IF ~ok
                                    THEN << <<"Could not list clusters, assuming it does not exist", name>> >>
                                    ELSE IF listed
                                    THEN << <<"Cluster already exists", name>>,
                                            <<"Cluster already exists", name>> >>
                                    ELSE << <<"Cluster does not exist", name>> >>)
                  /\ pc' = IF listed THEN "set_kubectl_context" ELSE "create_cluster"
    /\ UNCHANGED <<writes, cluster, cmd, opts, toggles, fs, ctx, idx, targets, updates, err>>

\* bootstrap_local_cluster: create_cluster(cluster_tool, cluster_name)?
create_cluster ==
    /\ pc = "create_cluster"
    /\ LET name == opts.bootstrap.name
       IN  IF "CLUSTER" \in toggles
           THEN /\ out' = Append(out, <<"DRY RUN: Would create cluster", name, BootstrapTool>>)
                /\ pc' = "set_kubectl_context"
                /\ UNCHANGED <<calls, err>>
           ELSE \E ok \in BOOLEAN :
                  /\ Spawn(create_cluster_command(BootstrapTool, name), ok)
                  /\ UNCHANGED out
                  /\ IF ok
                     THEN pc' = "set_kubectl_context" /\ UNCHANGED err
                     ELSE Fail(Error("command failed", BootstrapTool \o " create cluster", <<>>))
    /\ UNCHANGED <<writes, cluster, cmd, opts, toggles, fs, ctx, idx, targets, updates>>

\* bootstrap_local_cluster: set_kubectl_context(cluster_tool, cluster_name)?
set_kubectl_context ==
    /\ pc = "set_kubectl_context"
    /\ LET context == context_name(BootstrapTool, opts.bootstrap.name)
       IN  IF toggles \cap {"KUBECTL", "CLUSTER"} # {}
           THEN /\ out' = Append(out, <<"DRY RUN: Would set kubectl context", context>>)
                /\ pc' = "bootstrap_install"
                /\ UNCHANGED <<calls, err>>
           ELSE \E ok \in BOOLEAN :
                  /\ Spawn(<<"kubectl", "config", "use-context", context>>, ok)
                  /\ UNCHANGED out
                  /\ IF ok
                     THEN pc' = "bootstrap_install" /\ UNCHANGED err
                     ELSE Fail(Error("command failed", "kubectl config use-context", <<>>))
    /\ UNCHANGED <<writes, cluster, cmd, opts, toggles, fs, ctx, idx, targets, updates>>

\* bootstrap_install without the test of skip_install
bootstrap_install_always ==
    /\ pc = "bootstrap_install"
    /\ ctx' = MeshstackContext_new(cluster_context(BootstrapTool, opts.bootstrap.name), FALSE)
    /\ pc' = "install_component"
    /\ UNCHANGED <<writes, cluster, cmd, opts, toggles, fs, idx, targets, updates, calls, out, err>>

\* bootstrap_local_cluster: if !skip_install { install_component(&None,
\* &Some("dev"), &ctx)? } with the context of the new cluster
bootstrap_install ==
    /\ pc = "bootstrap_install"
    /\ IF opts.bootstrap.skip_install
       THEN /\ out' = Append(out, <<"Skipping infrastructure component installation">>)
            /\ pc' = "bootstrap_return"
            /\ UNCHANGED ctx
       ELSE /\ ctx' = MeshstackContext_new(cluster_context(BootstrapTool, opts.bootstrap.name), FALSE)
            /\ pc' = "install_component"
            /\ UNCHANGED out
    /\ UNCHANGED <<writes, cluster, cmd, opts, toggles, fs, idx, targets, updates, calls, err>>

\* bootstrap_local_cluster: the summary, return Ok
bootstrap_return ==
    /\ pc = "bootstrap_return"
    /\ out' = out \o << <<"Local cluster bootstrap completed!">>,
                        <<"Cluster name:", opts.bootstrap.name>>,
                        <<"Tool:", BootstrapTool>>,
                        <<"Context:", BootstrapTool \o "-" \o opts.bootstrap.name>> >>
                  \o (IF ~opts.bootstrap.skip_install
                      THEN << <<"Infrastructure: Installed (dev profile)">> >>
                      ELSE <<>>)
    /\ pc' = "done"
    /\ UNCHANGED <<writes, cluster, cmd, opts, toggles, fs, ctx, idx, targets, updates, calls, err>>

----------------------------------------------------------------------------
(* init *)

\* config_to_write in which a given name, mesh or ci replaces that of the
\* config file
config_to_write_options_first(o, given) ==
    LET file == serde_yaml_from_str(given)
        pick(opt, field, default) ==
            IF opt # None THEN opt
            ELSE IF o.config # None THEN file.config[field] ELSE default
    IN  IF o.config # None /\ ~file.ok
        THEN file
        ELSE Ok(MeshstackConfig(pick(o.name, "project_name", "my-app"),
                                IF o.config # None THEN file.config.language ELSE "generic",
                                pick(o.mesh, "service_mesh", "istio"),
                                pick(o.ci, "ci_cd", "github")))

\* main, Commands::Init: let config_to_write = ...
config_to_write(o, given) ==
    IF o.config # None
    THEN serde_yaml_from_str(given)
    ELSE Ok(MeshstackConfig(IF o.name # None THEN o.name ELSE "my-app",
                            "generic",
                            IF o.mesh # None THEN o.mesh ELSE "istio",
                            IF o.ci # None THEN o.ci ELSE "github"))

\* main, Commands::Init: the configuration is written and the directories
\* services and provision are created where they are missing
init_project ==
    /\ pc = "init"
    /\ LET r == config_to_write(opts.init, fs.given)
           dirs == SelectSeq(<<"services", "provision">>,
                             LAMBDA d : IF d = "services" THEN ~fs.services ELSE d \notin fs.found)
       IN  IF ~r.ok
           THEN /\ Fail(Error("cannot read the configuration given", opts.init.config, <<>>))
                /\ UNCHANGED <<fs, writes, out>>
           ELSE /\ fs' = [WithConfig(fs, serde_yaml_to_string(r.config))
                            EXCEPT !.services = TRUE, !.found = @ \cup {"provision"}]
                /\ writes' = writes \o << <<"write", "meshstack.yaml">> >>
                                    \o [i \in DOMAIN dirs |-> <<"create_dir", dirs[i]>>]
                /\ out' = out \o << <<"Created meshstack.yaml">> >>
                              \o [i \in DOMAIN dirs |-> <<"Created directory:", dirs[i]>>]
                /\ pc' = "init_templates"
                /\ UNCHANGED err
    /\ UNCHANGED <<cluster, cmd, opts, toggles, ctx, idx, targets, updates, calls>>

\* main, Commands::Init: copy_dir_all(template_source_path, ".")?, whose
\* read_dir fails when the template source of the build is not there
init_templates ==
    /\ pc = "init_templates"
    /\ IF fs.templates
       THEN /\ writes' = Append(writes, <<"copy_dir_all", "templates/base", ".">>)
            /\ out' = Append(out, <<"Copied base templates.">>)
            /\ pc' = "done"
            /\ UNCHANGED err
       ELSE /\ Fail(Error("No such file or directory", "templates/base", <<>>))
            /\ UNCHANGED <<writes, out>>
    /\ UNCHANGED <<cluster, cmd, opts, toggles, fs, ctx, idx, targets, updates, calls>>

----------------------------------------------------------------------------
(* generate *)

\* Path::exists() in the directory f, for the paths generate tests
path_exists(f, path) ==
    CASE path = "meshstack.yaml" -> f.yaml.kind # "absent"
      [] path = "services" -> f.services
      [] OTHER -> \/ path \in f.found
                  \/ \E i \in DOMAIN f.entries : path = "services/" \o f.entries[i].name

\* should_write_file(path, force)
should_write_file(f, path, force) ==
    IF ~path_exists(f, path) THEN TRUE ELSE force

\* if !path.exists() || force { if should_write_file(path, force)? { fs::write(path, ..) } }
write_file(f, path, force) ==
    IF (~path_exists(f, path) \/ force) /\ should_write_file(f, path, force)
    THEN << <<IF path_exists(f, path) THEN "overwrite" ELSE "write", path>> >>
    ELSE <<>>

\* if !dir.exists() { fs::create_dir_all(dir)? }
make_dir(f, path) ==
    IF ~path_exists(f, path) THEN << <<"create_dir_all", path>> >> ELSE <<>>

\* generate_helm_chart: what it writes
generate_helm_chart(f, dir, force) ==
    write_file(f, dir \o "/Chart.yaml", force)
    \o make_dir(f, dir \o "/templates")
    \o write_file(f, dir \o "/templates/deployment.yaml", force)
    \o write_file(f, dir \o "/templates/service.yaml", force)
    \o write_file(f, dir \o "/values.yaml", force)

\* generate_app_files: what it writes
generate_app_files(f, dir, config, force) ==
    CASE config.language = "rust" ->
            write_file(f, dir \o "/Cargo.toml", force)
            \o make_dir(f, dir \o "/src")
            \o write_file(f, dir \o "/src/main.rs", force)
      [] config.language \in {"node", "javascript"} ->
            write_file(f, dir \o "/package.json", force)
            \o write_file(f, dir \o "/index.js", force)
      [] OTHER -> <<>>

\* generate_service_scaffold: what it writes
generate_service_scaffold(f, service_name, config, force) ==
    LET dir == "services/" \o service_name
    IN  make_dir(f, dir)
        \o write_file(f, dir \o "/Dockerfile", force)
        \o generate_helm_chart(f, dir, force)
        \o (IF config.language # "generic"
            THEN generate_app_files(f, dir, config, force)
            ELSE <<>>)

\* generate_github_actions_workflow / generate_argocd_manifests, by the
\* match on config.ci_cd: what they write
generate_ci(f, config, force) ==
    CASE config.ci_cd = "github" ->
            make_dir(f, ".github/workflows")
            \o write_file(f, ".github/workflows/meshstack.yml", force)
      [] config.ci_cd = "argo" ->
            make_dir(f, "argocd")
            \o write_file(f, "argocd/application.yaml", force)
      [] OTHER -> <<>>

\* generate_values_files: what it writes
generate_values_files(f, force) ==
    write_file(f, "dev-values.yaml", force)
    \o write_file(f, "prod-values.yaml", force)
    \o write_file(f, "staging-values.yaml", force)

\* a file of the template source, by its path below the project directory
TemplateFile == "<file of templates/base>"

\* copy_dir_all(template_source_path, "."): fs::copy of every file of the
\* template source to the same path below the project directory, whatever
\* is there; holds: the source holds TemplateFile; there: the project does
copy_dir_all(holds, there) ==
    << <<"copy_dir_all", "templates/base", ".">> >>
    \o (IF holds THEN << <<IF there THEN "copy_over" ELSE "copy", TemplateFile>> >> ELSE <<>>)

\* generate_project_structure: what it writes
generate_project_structure(f, config, force, holds, there) ==
    (IF ~path_exists(f, "services") THEN << <<"create_dir", "services">> >> ELSE <<>>)
    \o (IF ~path_exists(f, "provision") THEN << <<"create_dir", "provision">> >> ELSE <<>>)
    \o write_file(f, "meshstack.yaml", force)
    \o generate_ci(f, config, force)
    \o generate_values_files(f, force)
    \o (IF f.templates THEN copy_dir_all(holds, there) ELSE <<>>)

\* the directory f after the writes ws of a generate step for config; a
\* service directory that is made is listed after the others
Written(f, ws, config) ==
    LET paths == {ws[i][2] : i \in {j \in DOMAIN ws : ws[j][1] # "copy_dir_all"}}
        made == {n \in {GhostService} \cup SeqToSet(ServiceNames) :
                    "services/" \o n \in paths}
        order == CHOOSE q \in Perms(made) : TRUE
        g == IF "meshstack.yaml" \in paths THEN WithConfig(f, serde_yaml_to_string(config)) ELSE f
    IN  [g EXCEPT !.found = @ \cup (paths \ ({"meshstack.yaml", "services"}
                                              \cup {"services/" \o n : n \in made})),
                  !.services = @ \/ "services" \in paths \/ made # {},
                  !.entries = @ \o [i \in DOMAIN order |-> [name |-> order[i], is_dir |-> TRUE]]]

\* generate_scaffolds that does not ask for the configuration first
generate_scaffolds_unchecked ==
    /\ pc = "generate_scaffolds"
    /\ pc' = IF opts.service # None THEN "generate_service" ELSE "generate_project"
    /\ targets' = IF opts.service # None THEN <<opts.service>> ELSE <<>>
    /\ idx' = 1
    /\ UNCHANGED <<writes, cluster, cmd, opts, toggles, fs, ctx, updates, calls, out, err>>

\* generate_scaffolds: require_config and the choice of what to generate
generate_scaffolds ==
    /\ pc = "generate_scaffolds"
    /\ IF ~ctx.config
       THEN Fail(ConfigMissing) /\ UNCHANGED targets
       ELSE /\ pc' = IF opts.service # None THEN "generate_service" ELSE "generate_project"
            /\ targets' = IF opts.service # None THEN <<opts.service>> ELSE <<>>
            /\ UNCHANGED err
    /\ idx' = 1
    /\ UNCHANGED <<writes, cluster, cmd, opts, toggles, fs, ctx, updates, calls, out>>

\* generate_scaffolds: generate_project_structure(config, force)?, and with
\* --all the listing of services/ that follows it
generate_project ==
    /\ pc = "generate_project"
    /\ \E holds, there \in BOOLEAN :
         LET ws == generate_project_structure(fs, ctx.loaded, opts.force, holds, there)
         IN
           /\ fs.templates \/ (~holds /\ ~there)
           /\ holds \/ ~there
           /\ writes' = writes \o ws
           /\ fs' = Written(fs, ws, ctx.loaded)
           /\ out' = IF ctx.loaded.ci_cd \notin {"github", "argo"}
                     THEN Append(out, <<"Unknown CI/CD system. Skipping CI/CD generation.",
                                        ctx.loaded.ci_cd>>)
                     ELSE out
    /\ targets' = IF opts.all THEN services_to_deploy(None) ELSE <<>>
    /\ idx' = 1
    /\ pc' = "generate_service"
    /\ UNCHANGED <<cluster, cmd, opts, toggles, ctx, updates, calls, err>>

\* generate_scaffolds: generate_service_scaffold(service_name, config, force)?
\* for the next service
generate_service ==
    /\ pc = "generate_service"
    /\ idx <= Len(targets)
    /\ LET ws == generate_service_scaffold(fs, targets[idx], ctx.loaded, opts.force)
       IN  /\ writes' = writes \o ws
           /\ fs' = Written(fs, ws, ctx.loaded)
    /\ idx' = idx + 1
    /\ UNCHANGED <<cluster, cmd, opts, toggles, ctx, pc, targets, updates, calls, out, err>>

\* generate_scaffolds: the summary, return Ok
generate_return ==
    /\ pc = "generate_service"
    /\ idx > Len(targets)
    /\ LET generated_files == SelectSeq(writes, LAMBDA w : w[1] \in {"write", "overwrite", "copy_dir_all"})
       IN  out' = Append(out, IF generated_files = <<>>
                              THEN <<"No files needed to be generated or updated.">>
                              ELSE <<"Successfully generated files", Len(generated_files)>>)
    /\ pc' = "done"
    /\ UNCHANGED <<writes, cluster, cmd, opts, toggles, fs, ctx, idx, targets, updates, calls, err>>

----------------------------------------------------------------------------
(* validate *)

\* validate_config without the ? of its caller: a failure of the
\* validation of meshstack.yaml is dropped
validate_config_unchecked ==
    /\ pc = "validate_config"
    /\ IF ~(opts.validate.full \/ opts.validate.config)
       THEN UNCHANGED out
       ELSE IF fs.yaml.kind = "absent" \/ ~serde_yaml_from_str(fs.yaml).ok
       THEN out' = Append(out, <<"Validating meshstack.yaml...">>)
       ELSE out' = out \o << <<"Validating meshstack.yaml...">>, <<"meshstack.yaml is valid.">> >>
    /\ pc' = "validate_cluster"
    /\ UNCHANGED <<writes, cluster, cmd, opts, toggles, fs, ctx, idx, targets, updates, calls, err>>

\* validate_project: if full || config { validate_config()? }
validate_config ==
    /\ pc = "validate_config"
    /\ IF ~(opts.validate.full \/ opts.validate.config)
       THEN pc' = "validate_cluster" /\ UNCHANGED <<out, err>>
       ELSE IF fs.yaml.kind = "absent"
       THEN /\ Fail(Error("meshstack.yaml not found.", None, <<>>))
            /\ out' = Append(out, <<"Validating meshstack.yaml...">>)
       ELSE IF ~serde_yaml_from_str(fs.yaml).ok
       THEN /\ Fail(Error("meshstack.yaml does not parse", None, <<>>))
            /\ out' = Append(out, <<"Validating meshstack.yaml...">>)
       ELSE /\ out' = out \o << <<"Validating meshstack.yaml...">>, <<"meshstack.yaml is valid.">> >>
            /\ pc' = "validate_cluster"
            /\ UNCHANGED err
    /\ UNCHANGED <<writes, cluster, cmd, opts, toggles, fs, ctx, idx, targets, updates, calls>>

\* validate_project: if full || cluster { validate_cluster()? }
validate_cluster ==
    /\ pc = "validate_cluster"
    /\ LET argv == <<"kubectl", "cluster-info", "--context", "current-context">>
       IN  IF ~(opts.validate.full \/ opts.validate.cluster)
           THEN pc' = "validate_ci" /\ UNCHANGED <<calls, out, err>>
           ELSE IF "KUBECTL" \in toggles
           THEN /\ out' = out \o << <<"Checking Kubernetes cluster connectivity...">>, DryRunLine(argv) >>
                /\ pc' = "validate_ci"
                /\ UNCHANGED <<calls, err>>
           ELSE \E ok \in BOOLEAN :
                  /\ Spawn(argv, ok)
                  /\ IF ok
                     THEN /\ out' = out \o << <<"Checking Kubernetes cluster connectivity...">>,
                                              <<"Connected to Kubernetes cluster successfully.">> >>
                          /\ pc' = "validate_ci"
                          /\ UNCHANGED err
                     ELSE /\ Fail(Error("command failed", "kubectl cluster-info", <<>>))
                          /\ out' = Append(out, <<"Checking Kubernetes cluster connectivity...">>)
    /\ UNCHANGED <<writes, cluster, cmd, opts, toggles, fs, ctx, idx, targets, updates>>

\* validate_project: if full || ci { validate_ci()? }, and return Ok
validate_ci ==
    /\ pc = "validate_ci"
    /\ IF ~(opts.validate.full \/ opts.validate.ci)
       THEN UNCHANGED <<fs, out>>
       ELSE \E e \in BOOLEAN :
              /\ Exists(".github/workflows", None, e)
              /\ fs' = Seen(fs, ".github/workflows", e)
              /\ out' = out \o << <<"Validating CI/CD manifests...">>,
                                 IF e THEN <<"GitHub Actions workflows directory found.">>
                                  ELSE <<"GitHub Actions workflows directory not found.">>,
                                 <<"ArgoCD manifests validation (placeholder): No issues found.">> >>
    /\ pc' = "done"
    /\ UNCHANGED <<writes, cluster, cmd, opts, toggles, ctx, idx, targets, updates, calls, err>>

----------------------------------------------------------------------------
(* plan *)

RECURSIVE parse_install_args(_, _, _)
\* plan_install_command: the loop over args, from position i (counted from 1)
parse_install_args(args, i, acc) ==
    IF i > Len(args) THEN acc
    ELSE IF args[i] \in {"--component", "-c"}
         THEN IF i + 1 <= Len(args)
              THEN parse_install_args(args, i + 2, [acc EXCEPT !.component = args[i + 1]])
              ELSE parse_install_args(args, i + 1, acc)
    ELSE IF args[i] \in {"--profile", "-p"}
         THEN IF i + 1 <= Len(args)
              THEN parse_install_args(args, i + 2, [acc EXCEPT !.profile = args[i + 1]])
              ELSE parse_install_args(args, i + 1, acc)
    ELSE IF args[i] = "--context"
         THEN IF i + 1 <= Len(args)
              THEN parse_install_args(args, i + 2, [acc EXCEPT !.context = args[i + 1]])
              ELSE parse_install_args(args, i + 1, acc)
    ELSE parse_install_args(args, i + 1, acc)

\* the selection plan_install_command reads from its arguments
plan_install_selection(args) ==
    parse_install_args(args, 1, [component |-> None, profile |-> None, context |-> None])

\* plan_install_command: let components_to_install = ...
plan_components_to_install(component) ==
    IF component # None
    THEN <<component>>
    ELSE <<"istio", "prometheus", "grafana", "cert-manager", "nginx-ingress">>

\* plan_install_command: the chart printed for a component
plan_chart_name(comp) ==
    CASE comp = "istio" -> "istio/istio"
      [] comp = "prometheus" -> "prometheus-community/prometheus"
      [] comp = "grafana" -> "grafana/grafana"
      [] comp = "cert-manager" -> "cert-manager/cert-manager"
      [] comp = "nginx-ingress" -> "ingress-nginx/ingress-nginx"
      [] comp = "vault" -> "hashicorp/vault"
      [] OTHER -> "unknown/unknown"

\* plan_install_command: the lines printed for one component
plan_install_lines(comp, sel, verbose) ==
    << <<"would install", comp, plan_chart_name(comp)>> >>
        \o (IF verbose
            THEN << <<"Helm command:", "helm", "install", comp, plan_chart_name(comp)>> >>
                 \o (IF sel.profile # None
                     THEN << <<"Profile:", sel.profile, sel.profile \o "-values.yaml">> >>
                     ELSE <<>>)
                 \o (IF sel.context # None
                     THEN << <<"Kubernetes context:", sel.context>> >>
                     ELSE <<>>)
            ELSE <<>>)

RECURSIVE Flatten(_)
Flatten(ss) == IF ss = <<>> THEN <<>> ELSE Head(ss) \o Flatten(Tail(ss))

PlanCompleted == <<"Planning completed successfully!">>

\* the commands plan_command can plan
PlannedCommands == <<"install", "deploy", "destroy", "update", "bootstrap", "generate">>

\* plan_command: dispatch on the command to plan
plan_command ==
    /\ pc = "plan_command"
    /\ IF opts.command \in SeqToSet(PlannedCommands)
       THEN pc' = "plan_" \o opts.command /\ UNCHANGED err
       ELSE Fail(Error("Unknown command for planning", opts.command, PlannedCommands))
    /\ UNCHANGED <<writes, cluster, cmd, opts, toggles, fs, ctx, idx, targets, updates, calls, out>>

\* plan_install_command, and the return of plan_command
plan_install_command ==
    /\ pc = "plan_install"
    /\ LET sel == plan_install_selection(opts.args)
           comps == plan_components_to_install(sel.component)
       IN  /\ targets' = comps
           /\ out' = out \o Flatten([i \in DOMAIN comps |->
                                        plan_install_lines(comps[i], sel, opts.verbose)])
                         \o <<PlanCompleted>>
    /\ pc' = "done"
    /\ UNCHANGED <<writes, cluster, cmd, opts, toggles, fs, ctx, idx, updates, calls, err>>

\* the argument loops of plan_deploy_command, plan_destroy_command,
\* plan_update_command, plan_bootstrap_command and plan_generate_command:
\* the field an argument sets and whether it takes the next argument as its
\* value; a field of None stands for the `_ => {}` arm
plan_arg(command, a) ==
    CASE command = "deploy" /\ a \in {"--service", "-s"} -> <<"service", TRUE>>
      [] command = "deploy" /\ a \in {"--env", "-e"} -> <<"env", TRUE>>
      [] command = "deploy" /\ a = "--build" -> <<"build", FALSE>>
      [] command = "deploy" /\ a = "--push" -> <<"push", FALSE>>
      [] command = "deploy" /\ a = "--context" -> <<"context", TRUE>>
      [] command = "destroy" /\ a \in {"--service", "-s"} -> <<"service", TRUE>>
      [] command = "destroy" /\ a \in {"--component", "-c"} -> <<"component", TRUE>>
      [] command = "destroy" /\ a = "--full" -> <<"full", FALSE>>
      [] command = "destroy" /\ a = "--all" -> <<"all", FALSE>>
      [] command = "destroy" /\ a = "--context" -> <<"context", TRUE>>
      [] command = "update" /\ a = "--check" -> <<"check", FALSE>>
      [] command = "update" /\ a = "--apply" -> <<"apply", FALSE>>
      [] command = "update" /\ a \in {"--component", "-c"} -> <<"component", TRUE>>
      [] command = "update" /\ a = "--template" -> <<"template", FALSE>>
      [] command = "update" /\ a = "--infra" -> <<"infra", FALSE>>
      [] command = "bootstrap" /\ a = "--kind" -> <<"kind", FALSE>>
      [] command = "bootstrap" /\ a = "--k3d" -> <<"k3d", FALSE>>
      [] command = "bootstrap" /\ a = "--skip-install" -> <<"skip_install", FALSE>>
      [] command = "bootstrap" /\ a \in {"--name", "-n"} -> <<"name", TRUE>>
      [] command = "generate" /\ a \in {"--service", "-s"} -> <<"service", TRUE>>
      [] command = "generate" /\ a = "--all" -> <<"all", FALSE>>
      [] command = "generate" /\ a = "--force" -> <<"force", FALSE>>
      [] OTHER -> <<None, FALSE>>

RECURSIVE parse_plan_args(_, _, _, _)
\* the `while i < args.len()` loop of a plan_*_command, from position i
\* (counted from 1)
parse_plan_args(command, args, i, acc) ==
    IF i > Len(args) THEN acc
    ELSE LET k == plan_arg(command, args[i])
         IN  IF k[1] = None THEN parse_plan_args(command, args, i + 1, acc)
             ELSE IF ~k[2]
             THEN parse_plan_args(command, args, i + 1, [acc EXCEPT ![k[1]] = TRUE])
             ELSE IF i + 1 <= Len(args)
             THEN parse_plan_args(command, args, i + 2, [acc EXCEPT ![k[1]] = args[i + 1]])
             ELSE parse_plan_args(command, args, i + 1, acc)

\* the selection a plan_*_command reads from its arguments
plan_selection(command, args) ==
    parse_plan_args(command, args, 1,
        [service |-> None, env |-> None, build |-> FALSE, push |-> FALSE, context |-> None,
         component |-> None, full |-> FALSE, all |-> FALSE,
         check |-> FALSE, apply |-> FALSE, template |-> FALSE, infra |-> FALSE,
         kind |-> FALSE, k3d |-> FALSE, skip_install |-> FALSE, name |-> "meshstack-dev",
         force |-> FALSE])

\* services_dir.join(svc_name).exists()
service_entry_exists(svc) ==
    fs.services /\ \E i \in DOMAIN fs.entries : fs.entries[i].name = svc

\* plan_deploy_command: let services_to_deploy = ...
plan_services_to_deploy(service) ==
    IF service # None
    THEN IF service_entry_exists(service) THEN <<service>> ELSE <<>>
    ELSE IF fs.services
    THEN LET dirs == SelectSeq(fs.entries, LAMBDA e : e.is_dir)
         IN  [i \in DOMAIN dirs |-> dirs[i].name]
    ELSE <<>>

\* plan_deploy_command: the warning printed while the services are looked up
plan_deploy_warning(service) ==
    IF service # None
    THEN IF service_entry_exists(service) THEN <<>>
         ELSE << <<"Warning: Service directory not found", service>> >>
    ELSE IF fs.services THEN <<>> ELSE << <<"Warning: Services directory not found">> >>

\* plan_deploy_command: the lines printed for one service
plan_deploy_lines(svc, sel, verbose) ==
    << <<"would deploy", svc>> >>
        \o (IF verbose
            THEN (IF sel.build
                  THEN << <<"Docker build:", "docker", "build", "-t", image_name(svc), service_path(svc)>> >>
                  ELSE <<>>)
                 \o (IF sel.push
                     THEN << <<"Docker push:", "docker", "push", image_name(svc)>> >>
                     ELSE <<>>)
                 \o << <<"Helm deploy:", "helm", "upgrade", "--install", service_release(svc), service_path(svc)>> >>
            ELSE <<>>)

\* plan_deploy_command with a probe for helm before the services are listed
plan_deploy_command_probes ==
    /\ pc = "plan_deploy"
    /\ LET sel == plan_selection("deploy", opts.args)
           svcs == plan_services_to_deploy(sel.service)
       IN  /\ targets' = svcs
           /\ \E ok \in BOOLEAN : Spawn(<<"helm", "version">>, ok)
           /\ out' = out \o plan_deploy_warning(sel.service) \o <<PlanCompleted>>
    /\ pc' = "done"
    /\ UNCHANGED <<writes, cluster, cmd, opts, toggles, fs, ctx, idx, updates, err>>

\* plan_deploy_command, and the return of plan_command
plan_deploy_command ==
    /\ pc = "plan_deploy"
    /\ LET sel == plan_selection("deploy", opts.args)
           svcs == plan_services_to_deploy(sel.service)
       IN  /\ targets' = svcs
           /\ out' = out \o plan_deploy_warning(sel.service)
                         \o (IF svcs = <<>>
                             THEN << <<"No services found to deploy">> >>
                             ELSE Flatten([i \in DOMAIN svcs |->
                                              plan_deploy_lines(svcs[i], sel, opts.verbose)])
                                  \o (IF sel.env # None
                                      THEN << <<"Environment:", sel.env, sel.env \o "-values.yaml">> >>
                                      ELSE <<>>))
                         \o <<PlanCompleted>>
    /\ pc' = "done"
    /\ UNCHANGED <<writes, cluster, cmd, opts, toggles, fs, ctx, idx, updates, calls, err>>

\* plan_destroy_targets with the five-member default set for the components
plan_destroy_targets_default_set(sel) ==
    (IF sel.service # None THEN <<service_release(sel.service)>> ELSE <<>>)
    \o (IF sel.component # None THEN <<sel.component>> ELSE <<>>)
    \o (IF sel.full \/ sel.all
        THEN <<"istio", "prometheus", "grafana", "cert-manager", "nginx-ingress">>
             \o (IF fs.services
                 THEN LET dirs == SelectSeq(fs.entries, LAMBDA e : e.is_dir)
                      IN  [i \in DOMAIN dirs |-> service_release(dirs[i].name)]
                 ELSE <<>>)
        ELSE <<>>)

\* plan_destroy_command: the releases listed, in the order they are printed
plan_destroy_targets(sel) ==
    (IF sel.service # None THEN <<service_release(sel.service)>> ELSE <<>>)
    \o (IF sel.component # None THEN <<sel.component>> ELSE <<>>)
    \o (IF sel.full \/ sel.all
        THEN <<"istio", "prometheus", "grafana", "cert-manager", "nginx-ingress", "vault">>
             \o (IF fs.services
                 THEN LET dirs == SelectSeq(fs.entries, LAMBDA e : e.is_dir)
                      IN  [i \in DOMAIN dirs |-> service_release(dirs[i].name)]
                 ELSE <<>>)
        ELSE <<>>)

\* plan_destroy_command: the lines printed for one release
plan_destroy_lines(release, verbose) ==
    << <<"would destroy", release>> >>
        \o (IF verbose THEN << <<"Command:", "helm", "uninstall", release>> >> ELSE <<>>)

\* plan_destroy_command, and the return of plan_command
plan_destroy_command ==
    /\ pc = "plan_destroy"
    /\ LET sel == plan_selection("destroy", opts.args)
           rels == plan_destroy_targets(sel)
       IN  /\ targets' = rels
           /\ out' = out \o Flatten([i \in DOMAIN rels |-> plan_destroy_lines(rels[i], opts.verbose)])
                         \o (IF (sel.full \/ sel.all) /\ sel.all
                             THEN << <<"Local project files (with --all flag)">> >>
                             ELSE <<>>)
                         \o <<PlanCompleted>>
    /\ pc' = "done"
    /\ UNCHANGED <<writes, cluster, cmd, opts, toggles, fs, ctx, idx, updates, calls, err>>

\* plan_update_command: the chart printed for a component
plan_update_chart_name(comp) ==
    CASE comp = "istio" -> "istio/istio"
      [] comp = "prometheus" -> "prometheus-community/prometheus"
      [] comp = "grafana" -> "grafana/grafana"
      [] comp = "cert-manager" -> "cert-manager/cert-manager"
      [] comp = "nginx-ingress" -> "ingress-nginx/ingress-nginx"
      [] comp = "vault" -> "hashicorp/vault"
      [] OTHER -> "unknown/unknown"

\* plan_update_command, and the return of plan_command
plan_update_command ==
    /\ pc = "plan_update"
    /\ LET sel == plan_selection("update", opts.args)
       IN  /\ targets' = IF sel.component # None THEN <<sel.component>> ELSE <<>>
           /\ out' = out
                \o (IF sel.check THEN << <<"Check for available updates">> >> ELSE <<>>)
                \o (IF sel.apply THEN << <<"Apply all available updates automatically">> >> ELSE <<>>)
                \o (IF sel.component # None
                    THEN << <<"Update specific component:", sel.component>> >>
                         \o (IF opts.verbose
                             THEN << <<"Command:", "helm", "upgrade", sel.component,
                                       plan_update_chart_name(sel.component)>> >>
                             ELSE <<>>)
                    ELSE <<>>)
                \o (IF sel.template THEN << <<"Update project templates">> >> ELSE <<>>)
                \o (IF sel.infra THEN << <<"Update infrastructure charts">> >> ELSE <<>>)
                \o (IF ~sel.check /\ ~sel.apply /\ sel.component = None /\ ~sel.template /\ ~sel.infra
                    THEN << <<"Default: Check infrastructure and template updates">> >>
                    ELSE <<>>)
                \o <<PlanCompleted>>
    /\ pc' = "done"
    /\ UNCHANGED <<writes, cluster, cmd, opts, toggles, fs, ctx, idx, updates, calls, err>>

\* plan_bootstrap_command: let components = vec![...]
plan_bootstrap_components == <<"istio", "prometheus", "grafana", "cert-manager", "nginx-ingress">>

\* plan_bootstrap_command: the chart printed for a component
plan_bootstrap_chart_name(comp) ==
    CASE comp = "istio" -> "istio/istio"
      [] comp = "prometheus" -> "prometheus-community/prometheus"
      [] comp = "grafana" -> "grafana/grafana"
      [] comp = "cert-manager" -> "cert-manager/cert-manager"
      [] comp = "nginx-ingress" -> "ingress-nginx/ingress-nginx"
      [] OTHER -> "unknown/unknown"

\* plan_bootstrap_command, and the return of plan_command
plan_bootstrap_command ==
    /\ pc = "plan_bootstrap"
    /\ LET sel == plan_selection("bootstrap", opts.args)
           cluster_tool == IF sel.k3d THEN "k3d" ELSE "kind"
           context == cluster_tool \o "-" \o sel.name
       IN  /\ targets' = IF sel.skip_install THEN <<>> ELSE plan_bootstrap_components
           /\ out' = out
                \o << <<"Create local Kubernetes cluster using", cluster_tool, sel.name>> >>
                \o (IF opts.verbose
                    THEN << IF sel.k3d
                            THEN <<"Command:", "k3d", "cluster", "create", sel.name,
                                   "--port", "80:80@loadbalancer", "--port", "443:443@loadbalancer">>
                            ELSE <<"Command:", "kind", "create", "cluster", "--name", sel.name>>,
                            <<"Set kubectl context:", "kubectl", "config", "use-context", context>> >>
                    ELSE <<>>)
                \o (IF sel.skip_install
                    THEN << <<"Skip infrastructure component installation">> >>
                    ELSE Flatten([i \in DOMAIN plan_bootstrap_components |->
                            << <<"would install", plan_bootstrap_components[i]>> >>
                            \o (IF opts.verbose
                                THEN << <<"Command:", "helm", "install", plan_bootstrap_components[i],
                                          plan_bootstrap_chart_name(plan_bootstrap_components[i]),
                                          "--kube-context", context, "--values", "dev-values.yaml">> >>
                                ELSE <<>>)]))
                \o <<PlanCompleted>>
    /\ pc' = "done"
    /\ UNCHANGED <<writes, cluster, cmd, opts, toggles, fs, ctx, idx, updates, calls, err>>

\* plan_generate_command, and the return of plan_command
plan_generate_command ==
    /\ pc = "plan_generate"
    /\ LET sel == plan_selection("generate", opts.args)
       IN  /\ targets' = IF sel.service # None THEN <<sel.service>> ELSE <<>>
           /\ out' = out
                \o << IF sel.service # None
                      THEN <<"Generate scaffold for service:", sel.service>>
                      ELSE IF sel.all
                      THEN <<"Re-generate all project scaffolds and configurations">>
                      ELSE <<"Re-generate project-level configurations">> >>
                \o << IF sel.force
                      THEN <<"Force overwrite existing files">>
                      ELSE <<"Skip existing files (use --force to overwrite)">> >>
                \o (IF load_config(fs.yaml).ok
                    THEN << <<"Current project configuration:",
                              load_config(fs.yaml).config.project_name,
                              load_config(fs.yaml).config.service_mesh,
                              load_config(fs.yaml).config.ci_cd>> >>
                    ELSE <<>>)
                \o <<PlanCompleted>>
    /\ pc' = "done"
    /\ UNCHANGED <<writes, cluster, cmd, opts, toggles, fs, ctx, idx, updates, calls, err>>

----------------------------------------------------------------------------

Next ==
    \/ main
    \/ install_resolve
    \/ install_probe
    \/ install_target
    \/ install_return
    \/ destroy_gate
    \/ destroy_service
    \/ destroy_component
    \/ destroy_infra
    \/ destroy_services
    \/ destroy_return
    \/ deploy_resolve
    \/ build_docker_image
    \/ push_docker_image
    \/ deploy_helm_chart
    \/ deploy_return
    \/ update_start
    \/ check_component_updates
    \/ check_infrastructure_updates
    \/ check_templates
    \/ check_done
    \/ apply_update
    \/ update_return
    \/ check_cluster_tool_installed
    \/ cluster_exists
    \/ create_cluster
    \/ set_kubectl_context
    \/ bootstrap_install
    \/ bootstrap_return
    \/ init_project
    \/ init_templates
    \/ generate_scaffolds
    \/ generate_project
    \/ generate_service
    \/ generate_return
    \/ validate_config
    \/ validate_cluster
    \/ validate_ci
    \/ plan_command
    \/ plan_install_command
    \/ plan_deploy_command
    \/ plan_destroy_command
    \/ plan_update_command
    \/ plan_bootstrap_command
    \/ plan_generate_command

Spec == Init /\ [][Next]_vars

----------------------------------------------------------------------------
(* Properties *)

\* the invocation has ended
Finished == pc \in {"done", "failed"}

\* the "DRY RUN: Would execute ..." lines printed so far
PreviewLines == SelectSeq(out, LAMBDA l : l[1] = "DRY RUN: Would execute")

\* the argument vectors of the processes spawned so far with the given
\* tool and verb
CallsOf(tool, verb) ==
    LET cs == SelectSeq(calls, LAMBDA c : c.argv[1] = tool /\ c.argv[2] = verb)
    IN  [i \in DOMAIN cs |-> cs[i].argv]

\* chart tool: install <release> <coordinate> [--dry-run] [--kube-context <ctx>] [--values <file>]
InstallArgs(release, coordinate, dry_run, context, profile) ==
    <<"helm", "install", release, coordinate>>
        \o (IF dry_run THEN <<"--dry-run">> ELSE <<>>)
        \o (IF context # None THEN <<"--kube-context", context>> ELSE <<>>)
        \o (IF profile # None THEN <<"--values", profile \o "-values.yaml">> ELSE <<>>)

C2_UnconfirmedDestroy ==
    (/\ cmd = "destroy"
     /\ ~opts.confirm
     /\ (opts.service # None \/ opts.component # None \/ opts.full \/ opts.all)) =>
        /\ calls = <<>>
        /\ PreviewLines = <<>>
        /\ pc \in {"main", "destroy_project", "done"}
        /\ pc = "done" => out = <<NotConfirmedNotice>>

\* C2 witness: an unconfirmed full teardown has ended
C2_Witness ==
    /\ cmd = "destroy" /\ ~opts.confirm /\ opts.full /\ opts.service = None
    /\ opts.component = None /\ fs.entries # <<>>
    /\ pc = "done" /\ out = <<NotConfirmedNotice>>

\* the six keys of the component catalog
CatalogKeys == {"istio", "prometheus", "grafana", "cert-manager", "nginx-ingress", "vault"}

\* C3 as stated: in a confirmed destroy no release gets two uninstall
\* calls, also when a service or a component is selected together with the
\* full teardown.
C3_OneUninstallPerRelease ==
    (cmd = "destroy" /\ opts.confirm) =>
        \A i, j \in DOMAIN calls :
            (i # j /\ calls[i].ok /\ calls[j].ok) => calls[i].argv[3] # calls[j].argv[3]

\* C4: in install, deploy and destroy a spawned process that fails is the
\* last process of the invocation and the invocation has failed; no process
\* that would undo an earlier target is ever spawned.
C4_FailFast ==
    cmd \in {"install", "deploy", "destroy"} =>
        /\ \A i \in DOMAIN calls :
              ~calls[i].ok => (i = Len(calls) /\ pc = "failed" /\ err.kind # "none")
        /\ \A i \in DOMAIN calls :
              <<calls[i].argv[1], calls[i].argv[2]>> \in
                  CASE cmd = "install" -> {<<"helm", "version">>, <<"helm", "install">>}
                    [] cmd = "deploy" -> {<<"docker", "build">>, <<"docker", "push">>, <<"helm", "upgrade">>}
                    [] cmd = "destroy" -> {<<"helm", "uninstall">>}

\* C4 witness: a confirmed full teardown has failed at its third uninstall,
\* with targets left
C4_Witness ==
    /\ cmd = "destroy" /\ opts.confirm /\ opts.full
    /\ pc = "failed"
    /\ Len(calls) = 3 /\ calls[1].ok /\ calls[2].ok /\ ~calls[3].ok

\* C5 as stated: an install profile outside {dev, prod, custom}, and a
\* deploy environment outside {dev, prod, staging, custom} in a project
\* whose configuration and services root are there, ends the invocation
\* with the unknown-target error, and no process is spawned.
C5_UnknownProfileBeforeProcess ==
    (\/ cmd = "install" /\ opts.profile \notin {None, "dev", "prod", "custom"}
     \/ /\ cmd = "deploy" /\ opts.env \notin {None, "dev", "prod", "staging", "custom"}
        /\ fs.config /\ fs.services) =>
        /\ calls = <<>>
        /\ Finished =>
              /\ pc = "failed"
              /\ err.kind \in {"Unknown profile", "Unknown environment", "Unknown component"}

\* C6 as stated: install with the profile custom, and deploy of a named
\* service with the environment custom in a configured project with no test
\* toggle set, fail, and not with the unknown-profile or unknown-environment
\* error.
C6_CustomNotImplemented ==
    (\/ cmd = "install" /\ opts.profile = "custom"
     \/ /\ cmd = "deploy" /\ opts.env = "custom" /\ opts.service # None
        /\ fs.config /\ fs.services /\ toggles = {}) =>
        (Finished =>
            /\ pc = "failed"
            /\ err.kind \notin {"Unknown profile", "Unknown environment"})

\* the component an install or a plan of install selects
SelectedComponent ==
    IF cmd = "install" THEN opts.component
    ELSE plan_install_selection(opts.args).component

\* C7 as stated: install of a component outside the catalog ends the same
\* way executed and planned: failed, with the unknown-component error that
\* lists the six keys.
C7_PlanInstallUnknownComponent ==
    (/\ cmd = "install" \/ (cmd = "plan" /\ opts.command = "install")
     /\ SelectedComponent \notin CatalogKeys \cup {None}
     /\ Finished) =>
        /\ pc = "failed"
        /\ err.kind = "Unknown component"
        /\ err.subject = SelectedComponent
        /\ SeqToSet(err.valid) = CatalogKeys

\* C8 as stated: install and update of a component outside the catalog
\* spawn no process and fail with the error that names the component and
\* lists the six keys.
C8_UnknownComponentFails ==
    (cmd \in {"install", "update"} /\ opts.component \notin CatalogKeys \cup {None}) =>
        /\ calls = <<>>
        /\ Finished =>
              /\ pc = "failed"
              /\ err.kind = "Unknown component"
              /\ err.subject = opts.component
              /\ err.valid = <<"istio", "prometheus", "grafana", "cert-manager", "nginx-ingress", "vault">>

\* C8, amended: install and update of a component outside the catalog
\* spawn no process; install, and update in a project whose configuration
\* loads, fail with the error that names the component and lists the six
\* keys; update without a configuration fails with the
\* configuration-missing error.
C8_UnknownComponent ==
    (cmd \in {"install", "update"} /\ opts.component \notin CatalogKeys \cup {None}) =>
        /\ calls = <<>>
        /\ PreviewLines = <<>>
        /\ Finished =>
              /\ pc = "failed"
              /\ IF cmd = "update" /\ ~fs.config
                 THEN err.kind = "meshstack.yaml not found or invalid"
                 ELSE /\ err.kind = "Unknown component"
                      /\ err.subject = opts.component
                      /\ err.valid = <<"istio", "prometheus", "grafana", "cert-manager",
                                       "nginx-ingress", "vault">>

\* C8 witness: an update of an unknown component in a configured project
\* has failed with the unknown-component error
C8_Witness ==
    /\ cmd = "update" /\ fs.config /\ opts.component = "nonexistent"
    /\ ~opts.check /\ ~opts.apply /\ toggles = {}
    /\ pc = "failed" /\ err.kind = "Unknown component"

\* C9 as stated: a destroy issues uninstall calls only for releases named
\* by a catalog key or meshstack-<service>.
C9_UninstallOnlyKnownReleases ==
    cmd = "destroy" =>
        \A i \in DOMAIN calls :
            calls[i].argv[3] \in
                CatalogKeys \cup {"meshstack-" \o n : n \in DirNames \cup {GhostService}}

\* the chart coordinates of the catalog
CatalogCharts ==
    [k \in CatalogKeys |->
        CASE k = "istio" -> "istio/istio"
          [] k = "prometheus" -> "prometheus-community/prometheus"
          [] k = "grafana" -> "grafana/grafana"
          [] k = "cert-manager" -> "cert-manager/cert-manager"
          [] k = "nginx-ingress" -> "ingress-nginx/ingress-nginx"
          [] k = "vault" -> "hashicorp/vault"]

\* the targets an install of a valid selection is to resolve to
ExpectedInstallTargets ==
    LET five == <<"istio", "prometheus", "grafana", "cert-manager", "nginx-ingress">>
    IN  IF opts.component = None
        THEN [i \in 1..5 |-> <<five[i], CatalogCharts[five[i]]>>]
        ELSE << <<opts.component, CatalogCharts[opts.component]>> >>

\* the release and chart of the install calls issued so far, spawned or,
\* under the helm toggle, previewed
IssuedInstalls ==
    IF "HELM" \in toggles
    THEN [i \in DOMAIN PreviewLines |-> <<PreviewLines[i][4], PreviewLines[i][5]>>]
    ELSE [i \in DOMAIN CallsOf("helm", "install") |->
            <<CallsOf("helm", "install")[i][3], CallsOf("helm", "install")[i][4]>>]

\* C10: install without a component resolves to istio, prometheus, grafana,
\* cert-manager, nginx-ingress with their catalog charts, install of one
\* valid component to that component alone; the install calls are issued in
\* that order, and all of them when the invocation succeeds.
C10_InstallTargets ==
    (cmd = "install" /\ opts.component \in CatalogKeys \cup {None}) =>
        /\ pc \in {"install_probe", "install_loop", "done"} => targets = ExpectedInstallTargets
        /\ Len(IssuedInstalls) <= Len(ExpectedInstallTargets)
        /\ \A i \in DOMAIN IssuedInstalls : IssuedInstalls[i] = ExpectedInstallTargets[i]
        /\ pc = "done" => Len(IssuedInstalls) = Len(ExpectedInstallTargets)

\* C10 witness: an install of the default set has spawned its five install
\* processes after the probe and ended
C10_Witness ==
    /\ cmd = "install" /\ opts.component = None /\ toggles = {}
    /\ pc = "done" /\ Len(calls) = 6 /\ Len(IssuedInstalls) = 5

\* the releases of the uninstall calls issued so far, spawned or, under the
\* helm toggle, previewed
IssuedUninstalls ==
    IF "HELM" \in toggles
    THEN [i \in DOMAIN PreviewLines |-> PreviewLines[i][4]]
    ELSE [i \in DOMAIN CallsOf("helm", "uninstall") |-> CallsOf("helm", "uninstall")[i][3]]

\* the releases a confirmed full teardown is to act on: the selected service
\* and component, if any, then the six catalog components, then
\* meshstack-<name> for the directories of services/ as listed
ExpectedTeardown ==
    LET dirs == SelectSeq(fs.entries, LAMBDA e : e.is_dir)
    IN  (IF opts.service # None THEN <<"meshstack-" \o opts.service>> ELSE <<>>)
        \o (IF opts.component # None THEN <<opts.component>> ELSE <<>>)
        \o <<"istio", "prometheus", "grafana", "cert-manager", "nginx-ingress", "vault">>
        \o [i \in DOMAIN dirs |-> "meshstack-" \o dirs[i].name]

\* C11: a confirmed full teardown issues its uninstall calls for the six
\* catalog components, vault included, in catalog order, then for
\* meshstack-<name> of every directory under services/ and for nothing else;
\* plain files give no call, an absent services/ gives no service call, and
\* the invocation fails only when a spawned uninstall failed.
C11_FullTeardownTargets ==
    (cmd = "destroy" /\ opts.confirm /\ (opts.full \/ opts.all)) =>
        /\ Len(IssuedUninstalls) <= Len(ExpectedTeardown)
        /\ \A i \in DOMAIN IssuedUninstalls : IssuedUninstalls[i] = ExpectedTeardown[i]
        /\ pc = "done" => IssuedUninstalls = ExpectedTeardown
        /\ pc = "failed" => (calls # <<>> /\ ~calls[Len(calls)].ok)

\* C11 witness: a confirmed full teardown over a services/ with one
\* directory and a plain file has ended after seven uninstall processes
C11_Witness ==
    /\ cmd = "destroy" /\ opts.confirm /\ opts.full /\ toggles = {}
    /\ opts.service = None /\ opts.component = None
    /\ \E i, j \in DOMAIN fs.entries : fs.entries[i].is_dir /\ ~fs.entries[j].is_dir
    /\ Len(SelectSeq(fs.entries, LAMBDA e : e.is_dir)) = 1
    /\ pc = "done" /\ Len(calls) = 7

\* C11 witness: a confirmed full teardown without services/ has ended after
\* the six component uninstalls
C11_NoServicesRoot ==
    /\ cmd = "destroy" /\ opts.confirm /\ opts.all /\ toggles = {} /\ ~fs.services
    /\ opts.service = None /\ opts.component = None
    /\ pc = "done" /\ Len(calls) = 6

\* C12: a plan invocation, whatever the command and its arguments, spawns
\* no process and writes no file or directory; all it does is print.
C12_PlanSpawnsNothing ==
    cmd = "plan" =>
        /\ calls = <<>>
        /\ writes = <<>>
        /\ pc = "done" => (out # <<>> /\ out[Len(out)] = PlanCompleted)

\* C12 witness: a verbose plan of a full teardown over a services/ with a
\* directory has ended, having listed the six components and the service
C12_Witness ==
    /\ cmd = "plan" /\ opts.command = "destroy" /\ opts.verbose
    /\ pc = "done" /\ Len(targets) >= 7
    /\ \E i \in DOMAIN out : out[i] = <<"Command:", "helm", "uninstall", "vault">>
    /\ calls = <<>> /\ writes = <<>>

\* C12 witness: a verbose plan of a deploy with --build and --push has
\* ended, having printed the build command of a service
C12_PlanDeployWitness ==
    /\ cmd = "plan" /\ opts.command = "deploy" /\ opts.verbose
    /\ pc = "done" /\ targets # <<>>
    /\ \E i \in DOMAIN out : out[i][1] = "Docker build:"
    /\ calls = <<>> /\ writes = <<>>

\* C13 as stated: a plan of deploy reaches the resolution decision of
\* deploy_service on the same selection and project directory: it fails
\* exactly when the configuration or services/ is missing, and otherwise
\* lists the services deploy_service resolves to, in the same order.
C13_PlanDeploySameResolution ==
    (cmd = "plan" /\ opts.command = "deploy" /\ Finished) =>
        /\ pc = "failed" <=> (~fs.config \/ ~fs.services)
        /\ pc = "done" =>
              targets = services_to_deploy(plan_selection("deploy", opts.args).service)

\* the targets install_component and destroy_project have acted on so far
ActedOn ==
    IF cmd = "install"
    THEN [i \in DOMAIN IssuedInstalls |-> IssuedInstalls[i][1]]
    ELSE IssuedUninstalls

\* the targets a plan of the same selection lists
Planned ==
    IF cmd = "install"
    THEN plan_components_to_install(opts.component)
    ELSE plan_destroy_targets(opts)

\* C14: an install without a component and a confirmed full teardown act on
\* the targets the plan of the same selection lists over the same project
\* directory, in the same order, and on all of them when they succeed; the
\* plan of an install without a component lists the five members of the
\* default install set with their charts, the plan of a full teardown the
\* six components and then the releases of the service directories.
C14_PlanListsExecutionTargets ==
    /\ (\/ cmd = "install" /\ opts.component = None
        \/ cmd = "destroy" /\ opts.confirm /\ (opts.full \/ opts.all)) =>
          /\ Len(ActedOn) <= Len(Planned)
          /\ \A i \in DOMAIN ActedOn : ActedOn[i] = Planned[i]
          /\ pc = "done" => ActedOn = Planned
    /\ (/\ cmd = "plan" /\ opts.command = "install" /\ pc = "done"
        /\ plan_install_selection(opts.args).component = None) =>
          /\ targets = [i \in DOMAIN default_install_set |-> default_install_set[i][1]]
          /\ SelectSeq(out, LAMBDA l : l[1] = "would install")
                = [i \in DOMAIN default_install_set |->
                      <<"would install", default_install_set[i][1], default_install_set[i][2]>>]
    /\ (/\ cmd = "plan" /\ opts.command = "destroy" /\ pc = "done"
        /\ LET sel == plan_selection("destroy", opts.args)
           IN  (sel.full \/ sel.all) /\ sel.service = None /\ sel.component = None) =>
          LET dirs == SelectSeq(fs.entries, LAMBDA e : e.is_dir)
              all == infra_components \o [i \in DOMAIN dirs |-> service_release(dirs[i].name)]
          IN  /\ targets = all
              /\ SelectSeq(out, LAMBDA l : l[1] = "would destroy")
                    = [i \in DOMAIN all |-> <<"would destroy", all[i]>>]

\* C14 witness: the plan of a full teardown over a services/ with two
\* entries, one of them a directory, has listed seven releases
C14_Witness ==
    /\ cmd = "plan" /\ opts.command = "destroy" /\ opts.args = <<"--full">>
    /\ Len(fs.entries) = 2 /\ Len(SelectSeq(fs.entries, LAMBDA e : e.is_dir)) = 1
    /\ pc = "done" /\ Len(targets) = 7

\* C14 witness: a confirmed full teardown over a services/ with a directory
\* has ended, having uninstalled what the plan lists
C14_TeardownWitness ==
    /\ cmd = "destroy" /\ opts.confirm /\ opts.all /\ toggles = {}
    /\ opts.service = None /\ opts.component = None
    /\ pc = "done" /\ Len(calls) >= 7 /\ ActedOn = Planned

\* C14 witness: the plan of an install without a component has ended
C14_InstallWitness ==
    /\ cmd = "plan" /\ opts.command = "install" /\ opts.args = <<>>
    /\ pc = "done" /\ Len(targets) = 5

\* C15 as stated: a deploy of all services over a services/ that exists and
\* holds no directory ends with success and the no-services outcome, a
\* deploy over a missing services/ fails with a precondition error, and
\* neither issues a build, push or deploy call.
C15_DeployEmptyOrAbsentRoot ==
    cmd = "deploy" =>
        /\ (fs.services /\ opts.service = None /\ ServiceDirNames = {}) =>
              /\ calls = <<>> /\ PreviewLines = <<>>
              /\ Finished => (pc = "done" /\ out = << <<"No services found to deploy.">> >>)
        /\ ~fs.services =>
              /\ calls = <<>> /\ PreviewLines = <<>>
              /\ Finished =>
                    /\ pc = "failed"
                    /\ err.kind \in {"Services directory not found",
                                     "meshstack.yaml not found or invalid"}

\* C15, amended: in a project whose configuration loads, a deploy of all
\* services over a services/ that exists and holds no directory ends with
\* success and the no-services outcome, and a deploy over a missing
\* services/ fails with the services-directory error; without a
\* configuration both fail with the configuration-missing error.  None of
\* them issues a build, push or deploy call.
C15_DeployNoServices ==
    (cmd = "deploy" /\ (~fs.services \/ (opts.service = None /\ ServiceDirNames = {}))) =>
        /\ calls = <<>> /\ PreviewLines = <<>>
        /\ Finished =>
              IF ~fs.config
              THEN pc = "failed" /\ err = ConfigMissing
              ELSE IF ~fs.services
              THEN pc = "failed" /\ err.kind = "Services directory not found"
              ELSE pc = "done" /\ out = << <<"No services found to deploy.">> >>

\* C15 witness: a deploy with --build and --push over a services/ that
\* holds a plain file only has ended with the no-services outcome
C15_Witness ==
    /\ cmd = "deploy" /\ fs.config /\ fs.services /\ opts.service = None
    /\ opts.build /\ opts.push /\ toggles = {}
    /\ Len(fs.entries) = 1 /\ ServiceDirNames = {}
    /\ pc = "done" /\ out = << <<"No services found to deploy.">> >> /\ calls = <<>>

\* C15 witness: a deploy in a configured project without services/ has failed
C15_AbsentRoot ==
    /\ cmd = "deploy" /\ fs.config /\ ~fs.services /\ opts.build /\ toggles = {}
    /\ pc = "failed" /\ err.kind = "Services directory not found" /\ calls = <<>>

\* the argument vectors of the install calls issued so far, spawned or,
\* under the helm toggle, previewed
IssuedInstallArgs ==
    IF "HELM" \in toggles
    THEN [i \in DOMAIN PreviewLines |-> Tail(PreviewLines[i])]
    ELSE CallsOf("helm", "install")

\* C20: the i-th install call of an invocation is helm install <release>
\* <coordinate> of the i-th target, then --dry-run if the flag is given,
\* then --kube-context <ctx> if a context is given, then --values
\* <profile>-values.yaml if a profile is given, and nothing else; so all
\* calls of a batch carry the same context and values file.
C20_InstallArgumentVector ==
    cmd = "install" =>
        /\ Len(IssuedInstallArgs) <= Len(targets)
        /\ \A i \in DOMAIN IssuedInstallArgs :
              IssuedInstallArgs[i] =
                  InstallArgs(targets[i][1], targets[i][2], opts.dry_run, opts.context, opts.profile)
        /\ pc = "done" => Len(IssuedInstallArgs) = Len(targets)

\* C20 witness: install --dry-run --profile prod --context prod-ctx of the
\* default set has spawned its five install processes, the last one for
\* nginx-ingress with all three optional parts
C20_Witness ==
    /\ cmd = "install" /\ opts.component = None /\ toggles = {}
    /\ opts.dry_run /\ opts.context = "prod-ctx" /\ opts.profile = "prod"
    /\ pc = "done" /\ Len(IssuedInstallArgs) = 5
    /\ IssuedInstallArgs[5] =
          <<"helm", "install", "nginx-ingress", "ingress-nginx/ingress-nginx", "--dry-run",
            "--kube-context", "prod-ctx", "--values", "prod-values.yaml">>

\* C20 witness: an install with no option set has spawned the bare command
C20_BareWitness ==
    /\ cmd = "install" /\ opts.component = "vault" /\ toggles = {}
    /\ pc = "done" /\ IssuedInstallArgs = << <<"helm", "install", "vault", "hashicorp/vault">> >>


\* C16: a deploy, update or generate in a directory whose meshstack.yaml is
\* absent or does not parse spawns no process, writes and creates nothing,
\* and ends failed with the configuration-missing error.
C16_ConfigMissingFailsClean ==
    (cmd \in {"deploy", "update", "generate"} /\ ~load_config(fs.yaml).ok) =>
        /\ calls = <<>> /\ writes = <<>> /\ PreviewLines = <<>>
        /\ pc # "done"
        /\ Finished => err = ConfigMissing

\* C16 witness: generate --all --force over a meshstack.yaml that is not
\* YAML, in a directory with services, has failed
C16_Witness ==
    /\ cmd = "generate" /\ opts.all /\ opts.force /\ opts.service = None
    /\ fs.yaml = NotYaml /\ ServiceDirNames # {}
    /\ pc = "failed" /\ err = ConfigMissing /\ writes = <<>>

\* C16 witness: deploy --build --push without meshstack.yaml, in a
\* directory with services, has failed
C16_DeployWitness ==
    /\ cmd = "deploy" /\ opts.build /\ opts.push /\ toggles = {}
    /\ fs.yaml = NoFile /\ ServiceDirNames # {}
    /\ pc = "failed" /\ err = ConfigMissing /\ calls = <<>>

\* C16 witness: update --apply over a meshstack.yaml that lacks a field has
\* failed
C16_UpdateWitness ==
    /\ cmd = "update" /\ opts.apply /\ fs.yaml = MissingFieldDoc
    /\ pc = "failed" /\ err = ConfigMissing /\ calls = <<>> /\ writes = <<>>


\* the YAML mapping doc leaves a field of MeshstackConfig out or gives it
\* the empty string
LacksField(doc) ==
    /\ doc.kind = "mapping"
    /\ \E f \in SeqToSet(FieldNames) :
          \/ ~\E i \in DOMAIN doc.entries : doc.entries[i][1] = f
          \/ \E i \in DOMAIN doc.entries :
                doc.entries[i][1] = f /\ doc.entries[i][2] = Scalar("")

\* C17: a meshstack.yaml in which one of the four fields is missing or is
\* the empty string is rejected: validate --config does not call it valid,
\* and validate, deploy, update and generate do not end with success.
C17_MissingOrEmptyFieldRejected ==
    (/\ LacksField(fs.yaml)
     /\ \/ cmd \in {"deploy", "update", "generate"}
        \/ cmd = "validate" /\ (opts.validate.config \/ opts.validate.full)) =>
        /\ pc # "done"
        /\ \A i \in DOMAIN out : out[i] # <<"meshstack.yaml is valid.">>


C18_OptionsWitness ==
    /\ cmd = "init" /\ opts.init.config = None
    /\ opts.init.name = "acme" /\ opts.init.mesh = "linkerd" /\ opts.init.ci = None
    /\ <<"write", "meshstack.yaml">> \in SeqToSet(writes)
    /\ load_config(fs.yaml) = Ok(MeshstackConfig("acme", "generic", "linkerd", "github"))


\* the record init is to write: the one of the config file when one is
\* given, else every field from its option or its default
ResolvedFields ==
    IF opts.init.config # None
    THEN serde_yaml_from_str(fs.given).config
    ELSE MeshstackConfig(IF opts.init.name = None THEN "my-app" ELSE opts.init.name,
                         "generic",
                         IF opts.init.mesh = None THEN "istio" ELSE opts.init.mesh,
                         IF opts.init.ci = None THEN "github" ELSE opts.init.ci)

\* the config file given to init, if any, can be read as a configuration
GivenFileLoads == opts.init.config # None => serde_yaml_from_str(fs.given).ok

C19_ConfigFileWitness ==
    /\ cmd = "init" /\ pc = "done"
    /\ opts.init.config # None /\ opts.init.name = "acme"
    /\ load_config(fs.yaml) = Ok(MeshstackConfig("my-test-app", "generic", "linkerd", "argo"))

\* C19 witness: an init has failed on the missing template source after
\* it wrote the configuration
C19_NoTemplatesWitness ==
    /\ cmd = "init" /\ pc = "failed" /\ ~fs.templates
    /\ writes # <<>> /\ load_config(fs.yaml) = Ok(ResolvedFields)


\* the argument vectors of the processes spawned and the commands
\* previewed so far
IssuedCommands ==
    {calls[i].argv : i \in DOMAIN calls} \cup {Tail(PreviewLines[i]) : i \in DOMAIN PreviewLines}

\* C21: no chart-tool call of an install or a deploy, spawned or previewed,
\* passes --values with a file that does not exist.
C21_ValuesOnlyForExistingFile ==
    cmd \in {"install", "deploy"} =>
        \A a \in IssuedCommands :
            \A i \in 1..(Len(a) - 1) : a[i] = "--values" => a[i + 1] \notin fs.missing


\* the service names of the model in ascending order
NamesAscending == <<"api", "db", "ghost", "web", "worker">>

\* the releases among rs that belong to a directory of services/, in the
\* order of rs, by the place of their name in NamesAscending
ServiceRanks(rs) ==
    LET own == SelectSeq(rs, LAMBDA r : \E n \in ServiceDirNames : r = service_release(n))
    IN  [i \in DOMAIN own |->
            CHOOSE k \in DOMAIN NamesAscending : own[i] = service_release(NamesAscending[k])]

\* C22: a deploy of all services issues its chart upgrades, and a full
\* teardown its service uninstalls, in ascending order of directory name.
C22_ServicesInNameOrder ==
    LET rs == IF cmd = "deploy"
              THEN [i \in DOMAIN CallsOf("helm", "upgrade") |-> CallsOf("helm", "upgrade")[i][4]]
              ELSE IssuedUninstalls
    IN  (cmd \in {"deploy", "destroy"} /\ opts.service = None) =>
            \A i, j \in DOMAIN ServiceRanks(rs) :
                i < j => ServiceRanks(rs)[i] < ServiceRanks(rs)[j]


\* C23: every helm upgrade of a deploy is for the release meshstack-<name>
\* of the directory services/<name> it deploys; every uninstall of a destroy
\* is for meshstack-<name> of the selected service or of a directory of
\* services/, or for the bare key of the selected or a catalog component;
\* every install, and every upgrade of an update, is for the bare key of
\* the component whose chart it names.
C23_ReleaseNames ==
    /\ cmd = "deploy" =>
          \A i \in DOMAIN CallsOf("helm", "upgrade") :
              LET a == CallsOf("helm", "upgrade")[i]
              IN  \E n \in ServiceDirNames \cup {opts.service} :
                      a[4] = "meshstack-" \o n /\ a[5] = "services/" \o n
    /\ cmd = "destroy" =>
          \A i \in DOMAIN IssuedUninstalls :
              \/ IssuedUninstalls[i] \in SeqToSet(ValidComponents) \cup {opts.component}
              \/ \E n \in ServiceDirNames \cup {opts.service} :
                    IssuedUninstalls[i] = "meshstack-" \o n
    /\ cmd = "install" =>
          \A i \in DOMAIN IssuedInstallArgs :
              /\ IssuedInstallArgs[i][3] \in SeqToSet(ValidComponents)
              /\ IssuedInstallArgs[i][4] = install_chart_name(IssuedInstallArgs[i][3])
    /\ cmd = "update" =>
          \A i \in DOMAIN CallsOf("helm", "upgrade") :
              LET a == CallsOf("helm", "upgrade")[i]
              IN  a[3] \in SeqToSet(ValidComponents) /\ a[4] = install_chart_name(a[3])

\* C23 witness: a deploy of the service api has spawned the upgrade of
\* meshstack-api from services/api
C23_Witness ==
    /\ cmd = "deploy" /\ opts.service = ServiceNames[1] /\ pc = "done"
    /\ Len(CallsOf("helm", "upgrade")) = 1
    /\ CallsOf("helm", "upgrade")[1][4] = "meshstack-api"
    /\ CallsOf("helm", "upgrade")[1][5] = "services/api"

\* C23 witness: a confirmed destroy of the service api and the component
\* istio has spawned the uninstalls of meshstack-api and of istio
C23_DestroyWitness ==
    /\ cmd = "destroy" /\ opts.confirm /\ ~opts.full /\ ~opts.all /\ toggles = {}
    /\ opts.service = ServiceNames[1] /\ opts.component = "istio"
    /\ pc = "done" /\ IssuedUninstalls = <<"meshstack-api", "istio">>


\* C24: a deploy that has ended with success has, for every service it
\* resolved, either spawned the chart upgrade or, when the helm toggle
\* suppresses that tool, printed the preview line of the upgrade command;
\* a toggle of another tool does not suppress the chart upgrade.
C24_DeployPreviewsSuppressedCalls ==
    (cmd = "deploy" /\ pc = "done") =>
        \A i \in DOMAIN targets :
            IF "HELM" \in toggles
            THEN \E k \in DOMAIN PreviewLines :
                    /\ Len(PreviewLines[k]) >= 5
                    /\ PreviewLines[k][2] = "helm" /\ PreviewLines[k][3] = "upgrade"
                    /\ PreviewLines[k][5] = service_release(targets[i])
            ELSE \E k \in DOMAIN CallsOf("helm", "upgrade") :
                    CallsOf("helm", "upgrade")[k][4] = service_release(targets[i])


\* the installed-release query of the component was spawned and came back
ReleaseQueried(component) ==
    \E i \in DOMAIN calls :
        /\ calls[i].ok
        /\ SubSeq(calls[i].argv, 1, 4) = <<"helm", "list", "--filter", component>>

\* C25: in an update, a component whose installed-release query has come
\* back with no release has no update reported and no upgrade command,
\* spawned or previewed, in any flow.
C25_NoUpgradeWithoutRelease ==
    cmd = "update" =>
        \A component \in SeqToSet(ValidComponents) :
            (ReleaseQueried(component) /\ component \notin cluster.releases) =>
                /\ \A i \in DOMAIN updates : updates[i].name # component
                /\ \A i \in DOMAIN out : out[i] # <<"Available update", component>>
                /\ \A a \in IssuedCommands :
                      ~(a[1] = "helm" /\ a[2] = "upgrade" /\ a[3] = component)

\* C25 witness: update --apply --infra against a cluster with istio only
\* has ended after it queried the release of grafana, which is not
\* installed, and upgraded istio
C25_Witness ==
    /\ cmd = "update" /\ opts.apply /\ opts.infra /\ opts.component = None
    /\ cluster.releases = {"istio"} /\ ~cluster.down
    /\ ReleaseQueried("grafana") /\ pc = "done"
    /\ Len(CallsOf("helm", "upgrade")) = 1 /\ CallsOf("helm", "upgrade")[1][3] = "istio"

\* C25 witness: update --component vault without --check and --apply
\* against a cluster without vault has ended with the one query
C25_ComponentWitness ==
    /\ cmd = "update" /\ ~opts.check /\ ~opts.apply /\ opts.component = "vault"
    /\ "vault" \notin cluster.releases /\ ReleaseQueried("vault")
    /\ pc = "done" /\ CallsOf("helm", "upgrade") = <<>>


\* the repository query for the chart of the component was spawned and
\* failed
SearchFailed(component) ==
    \E i \in DOMAIN calls :
        /\ ~calls[i].ok
        /\ SubSeq(calls[i].argv, 1, 4) = <<"helm", "search", "repo", install_chart_name(component)>>

\* C26: in an update, a component whose repository query failed has the
\* warning printed, no update reported and no upgrade command; the update
\* fails only on an upgrade that failed, and a check of the infrastructure
\* that has ended with success has queried all five components.
C26_FailedRepositoryQueryIsNotFatal ==
    cmd = "update" =>
        \A component \in SeqToSet(ValidComponents) :
            SearchFailed(component) =>
                /\ <<"Warning: Could not check updates - repository might not be added", component>>
                       \in SeqToSet(out)
                /\ \A i \in DOMAIN updates : updates[i].name # component
                /\ \A i \in DOMAIN out : out[i] # <<"Available update", component>>
                /\ \A a \in IssuedCommands :
                      ~(a[1] = "helm" /\ a[2] = "upgrade" /\ a[3] = component)
                /\ pc = "failed" =>
                      /\ calls[Len(calls)].argv[2] = "upgrade"
                      /\ calls[Len(calls)].argv[3] # component
                /\ (pc = "done" /\ opts.component = None) =>
                      \A i \in DOMAIN infra_update_components :
                          ReleaseQueried(infra_update_components[i][1])

\* C26 witness: update --check against a cluster with prometheus and
\* grafana installed, where the repository query for prometheus failed,
\* has ended with success and reports the update of grafana
C26_Witness ==
    /\ cmd = "update" /\ opts.check /\ ~opts.apply /\ opts.component = None
    /\ SearchFailed("prometheus") /\ cluster.unlisted = {}
    /\ pc = "done" /\ <<"Available update", "grafana">> \in SeqToSet(out)
    /\ ReleaseQueried("nginx-ingress")


\* the names an unconfirmed destroy resolves: the selected service, the
\* selected component and, under a full teardown, the six components and
\* the directories of services/
ResolvedDestroyNames ==
    (IF opts.service # None THEN {opts.service} ELSE {})
    \cup (IF opts.component # None THEN {opts.component} ELSE {})
    \cup (IF destroy_full THEN SeqToSet(infra_components) \cup ServiceDirNames ELSE {})

\* C27: an unconfirmed destroy with a selection that has ended has printed,
\* before the not-confirmed notice, a line naming every target it resolved.
C27_UnconfirmedDestroyReportsTargets ==
    (/\ cmd = "destroy" /\ ~opts.confirm /\ pc = "done"
     /\ (opts.service # None \/ opts.component # None \/ destroy_full)) =>
        /\ out # <<>> /\ out[Len(out)] = NotConfirmedNotice
        /\ \A n \in ResolvedDestroyNames :
              \E i \in 1..(Len(out) - 1) : \E k \in DOMAIN out[i] :
                  out[i][k] \in {n, service_release(n)}


\* C28: a generate without --force, whatever it is to generate, writes
\* over no file that was there before.
C28_GenerateKeepsExistingFiles ==
    (cmd = "generate" /\ ~opts.force) =>
        \A i \in DOMAIN writes : writes[i][1] \notin {"overwrite", "copy_over"}


\* the steps of a deploy that spawn a process for each service, in order:
\* the build and the push under their flags unless the docker toggle
\* previews them, the chart upgrade unless a toggle is set
SpawnedSteps ==
    (IF opts.build /\ "DOCKER" \notin toggles THEN <<"build">> ELSE <<>>)
    \o (IF opts.push /\ "DOCKER" \notin toggles THEN <<"push">> ELSE <<>>)
    \o (IF toggles = {} THEN <<"upgrade">> ELSE <<>>)

\* the step and the service of a process a deploy spawned
StepOf(argv) ==
    CASE argv[1] = "docker" /\ argv[2] = "build" ->
            <<"build", CHOOSE n \in SeqToSet(targets) :
                          argv = <<"docker", "build", "-t", "meshstack/" \o n \o ":latest", "services/" \o n>> >>
      [] argv[1] = "docker" /\ argv[2] = "push" ->
            <<"push", CHOOSE n \in SeqToSet(targets) :
                          argv = <<"docker", "push", "meshstack/" \o n \o ":latest">> >>
      [] argv[1] = "helm" /\ argv[2] = "upgrade" ->
            <<"upgrade", CHOOSE n \in SeqToSet(targets) :
                          SubSeq(argv, 3, 5) = <<"--install", "meshstack-" \o n, "services/" \o n>> >>
      [] OTHER -> <<"other", None>>

\* C29: the processes of a deploy are, service by service in the order of
\* resolution, the build if --build is given, the push if --push is given
\* and the chart upgrade, each spawned after the one before it has ended
\* with success; so none is a build or a push without its flag, and the
\* calls of one service are over before the first call of the next.
C29_DeployCallOrder ==
    cmd = "deploy" =>
        LET k == Len(SpawnedSteps)
        IN  /\ Len(calls) <= k * Len(targets)
            /\ \A i \in DOMAIN calls :
                  /\ StepOf(calls[i].argv) =
                        <<SpawnedSteps[((i - 1) % k) + 1], targets[((i - 1) \div k) + 1]>>
                  /\ i < Len(calls) => calls[i].ok
            /\ pc = "done" => Len(calls) = k * Len(targets)

\* C29 witness: deploy --build --push of two services has ended after
\* six processes
C29_Witness ==
    /\ cmd = "deploy" /\ opts.build /\ opts.push /\ toggles = {}
    /\ Len(targets) = 2 /\ pc = "done" /\ Len(calls) = 6
    /\ StepOf(calls[3].argv) = <<"upgrade", targets[1]>>
    /\ StepOf(calls[4].argv) = <<"build", targets[2]>>

\* C29 witness: deploy --push without --build of two services has ended
\* after a push and an upgrade for each
C29_PushOnlyWitness ==
    /\ cmd = "deploy" /\ ~opts.build /\ opts.push /\ toggles = {}
    /\ Len(targets) = 2 /\ pc = "done" /\ Len(calls) = 4


\* C30: a deploy issues no build command for a service whose Dockerfile is
\* missing and no chart upgrade for a service whose Chart.yaml is missing,
\* and it does not end with success over such a service: with --build for
\* the Dockerfile, always for Chart.yaml.
C30_MissingArtifactFails ==
    cmd = "deploy" =>
        \A i \in DOMAIN targets :
            LET n == targets[i]
            IN  /\ (service_path(n) \o "/Dockerfile") \in fs.missing =>
                      /\ \A a \in IssuedCommands :
                            ~(a[1] = "docker" /\ a[2] = "build" /\ a[Len(a)] = service_path(n))
                      /\ opts.build => pc # "done"
                /\ (service_path(n) \o "/Chart.yaml") \in fs.missing =>
                      /\ \A a \in IssuedCommands :
                            ~(a[1] = "helm" /\ a[2] = "upgrade" /\ a[4] = service_release(n))
                      /\ pc # "done"


HelmUnavailable == Error("Helm is not installed or not found in PATH", None, <<>>)

\* C31: an install spawns helm version after it resolved its targets and
\* before its first helm install; when that probe fails the invocation has
\* failed with the helm-not-installed error and has issued no install, and
\* an install whose component is unknown fails before the probe.
C31_InstallProbesHelmFirst ==
    cmd = "install" =>
        /\ \A i \in DOMAIN calls :
              calls[i].argv[2] = "install" =>
                  i > 1 /\ calls[1] = Process(<<"helm", "version">>, TRUE)
        /\ (calls # <<>> /\ calls[1] = Process(<<"helm", "version">>, FALSE)) =>
              /\ Len(calls) = 1 /\ PreviewLines = <<>>
              /\ pc = "failed" /\ err = HelmUnavailable
        /\ (pc = "failed" /\ err.kind = "Unknown component") => calls = <<>>
        /\ calls # <<>> => targets # <<>>

\* C31 witness: an install of the default set with the prod profile has
\* failed on the probe, its only process
C31_Witness ==
    /\ cmd = "install" /\ opts.component = None /\ opts.profile = "prod" /\ toggles = {}
    /\ Len(targets) = 5
    /\ calls = <<Process(<<"helm", "version">>, FALSE)>>
    /\ pc = "failed" /\ err = HelmUnavailable

\* C31 witness: an install of one component has ended with success after
\* the probe and the install
C31_ProbeThenInstall ==
    /\ cmd = "install" /\ opts.component = "grafana" /\ toggles = {} /\ pc = "done"
    /\ Len(calls) = 2 /\ calls[1] = Process(<<"helm", "version">>, TRUE)
    /\ calls[2].argv[2] = "install"

----------------------------------------------------------------------------
(* bootstrap: the order of its steps *)

\* the step of bootstrap a spawned process belongs to: 1 the tool check,
\* 2 the existence check, 3 the creation, 4 the context switch, 5 the
\* installation; 0 for any other process
BootstrapCallStep(argv) ==
    CASE argv = <<BootstrapTool, "version">> -> 1
      [] argv = list_clusters_command(BootstrapTool) -> 2
      [] argv = create_cluster_command(BootstrapTool, opts.bootstrap.name) -> 3
      [] argv = <<"kubectl", "config", "use-context",
                  BootstrapTool \o "-" \o opts.bootstrap.name>> -> 4
      [] argv[1] = "helm" -> 5
      [] OTHER -> 0

\* the step of bootstrap a previewed call belongs to, 0 for any other line
BootstrapLineStep(l) ==
    CASE l[1] = "DRY RUN: Would check if installed" -> 1
      [] l[1] = "DRY RUN: Would check if cluster exists" -> 2
      [] l[1] = "DRY RUN: Would create cluster" -> 3
      [] l[1] = "DRY RUN: Would set kubectl context" -> 4
      [] l[1] = "DRY RUN: Would execute" -> 5
      [] OTHER -> 0

\* the previewed calls among the lines printed
BootstrapPreviews == SelectSeq(out, LAMBDA l : BootstrapLineStep(l) # 0)

\* step n was taken, spawned or previewed
StepTaken(n) ==
    \/ \E i \in DOMAIN calls : BootstrapCallStep(calls[i].argv) = n
    \/ \E i \in DOMAIN out : BootstrapLineStep(out[i]) = n

\* s is in step order, and each of the steps 1 to 4 appears at most once
InStepOrder(s) ==
    \A i, j \in DOMAIN s :
        i < j => /\ s[i] <= s[j]
                 /\ s[j] < 5 => s[i] < s[j]

\* C32: bootstrap takes its steps in the order tool check, existence check,
\* creation, context switch, installation, each one only after the ones
\* before it succeeded, and a failed tool check ends the command with the
\* tool-unavailable error before any later step.
C32_BootstrapStepOrder ==
    cmd = "bootstrap" =>
        /\ \A i \in DOMAIN calls : BootstrapCallStep(calls[i].argv) # 0
        /\ InStepOrder([i \in DOMAIN calls |-> BootstrapCallStep(calls[i].argv)])
        /\ InStepOrder([i \in DOMAIN BootstrapPreviews |-> BootstrapLineStep(BootstrapPreviews[i])])
        /\ \A i \in DOMAIN calls :
              i < Len(calls) => calls[i].ok \/ BootstrapCallStep(calls[i].argv) = 2
        /\ StepTaken(2) => StepTaken(1)
        /\ StepTaken(3) => StepTaken(2)
        /\ StepTaken(4) => StepTaken(2)
        /\ StepTaken(5) => StepTaken(4)
        /\ (calls # <<>> /\ calls[1] = Process(<<BootstrapTool, "version">>, FALSE)) =>
              /\ Len(calls) = 1 /\ out = <<>>
              /\ pc = "failed" /\ err = ToolUnavailable(BootstrapTool)
        /\ pc = "done" =>
              /\ StepTaken(1) /\ StepTaken(2) /\ StepTaken(4)
              /\ opts.bootstrap.skip_install \/ StepTaken(5)

\* a bootstrap that spawned every one of its steps and returned
C32_Witness ==
    /\ cmd = "bootstrap" /\ pc = "done" /\ toggles = {}
    /\ \A n \in 1..5 : \E i \in DOMAIN calls : BootstrapCallStep(calls[i].argv) = n

\* a bootstrap whose tool check failed
C32_ToolMissingWitness ==
    /\ cmd = "bootstrap" /\ pc = "failed"
    /\ calls = <<Process(<<BootstrapTool, "version">>, FALSE)>>

\* the helm install commands of the invocation, spawned or previewed
InstallCommands ==
    IF "HELM" \in toggles
    THEN [i \in DOMAIN PreviewLines |-> Tail(PreviewLines[i])]
    ELSE CallsOf("helm", "install")

\* C33: with --skip-install bootstrap issues no chart-tool call, spawned or
\* previewed, and still takes the cluster steps: it creates the cluster
\* unless it is reported to exist and sets the context. Without it, a
\* bootstrap that returns has installed the five default components, in
\* their order, each with the values file of the dev profile.
C33_SkipInstall ==
    cmd = "bootstrap" =>
        /\ opts.bootstrap.skip_install =>
              /\ \A i \in DOMAIN calls : calls[i].argv[1] # "helm"
              /\ PreviewLines = <<>>
              /\ pc = "done" =>
                    /\ StepTaken(4)
                    /\ \/ StepTaken(3)
                       \/ \E i \in DOMAIN out : out[i][1] = "Cluster already exists"
        /\ ~opts.bootstrap.skip_install =>
              /\ Len(InstallCommands) <= 5
              /\ \A i \in DOMAIN InstallCommands :
                    /\ SubSeq(InstallCommands[i], 1, 4)
                          = <<"helm", "install", default_install_set[i][1], default_install_set[i][2]>>
                    /\ SubSeq(InstallCommands[i], Len(InstallCommands[i]) - 1, Len(InstallCommands[i]))
                          = <<"--values", "dev-values.yaml">>
              /\ pc = "done" =>
                    /\ Len(InstallCommands) = 5
                    /\ Len(default_install_set) = 5
                    /\ \A i \in DOMAIN calls : calls[i].ok \/ BootstrapCallStep(calls[i].argv) = 2

\* a bootstrap with --skip-install that created the cluster, set the context
\* and returned
C33_Witness ==
    /\ cmd = "bootstrap" /\ opts.bootstrap.skip_install /\ pc = "done"
    /\ \E i \in DOMAIN calls : BootstrapCallStep(calls[i].argv) = 3
    /\ \E i \in DOMAIN calls : BootstrapCallStep(calls[i].argv) = 4

\* a bootstrap without --skip-install that spawned its five installs
C33_InstallWitness ==
    /\ cmd = "bootstrap" /\ ~opts.bootstrap.skip_install /\ pc = "done"
    /\ Len(CallsOf("helm", "install")) = 5

----------------------------------------------------------------------------
(* bootstrap: the existence check and the creation *)

\* what cluster_exists printed about the cluster
ReportedExisting == \E i \in DOMAIN out : out[i][1] = "Cluster already exists"

ReportedAbsent ==
    \E i \in DOMAIN out :
        out[i][1] \in {"Cluster does not exist",
                       "Could not list clusters, assuming it does not exist",
                       "DRY RUN: Would check if cluster exists"}

\* C37: bootstrap creates the cluster only after cluster_exists answered
\* that it does not exist, and then it does; when the cluster is reported to
\* exist nothing is created and the context switch and the installation
\* still run.
C37_CreateOnlyWhenAbsent ==
    cmd = "bootstrap" =>
        /\ ~(ReportedExisting /\ ReportedAbsent)
        /\ StepTaken(3) => ReportedAbsent
        /\ (ReportedAbsent /\ pc # "create_cluster") => StepTaken(3)
        /\ ReportedExisting =>
              /\ ~StepTaken(3)
              /\ pc # "create_cluster"
              /\ pc = "done" =>
                    /\ StepTaken(4)
                    /\ opts.bootstrap.skip_install \/ Len(InstallCommands) = 5

\* a bootstrap that found its cluster, set the context and installed
C37_Witness ==
    /\ cmd = "bootstrap" /\ pc = "done" /\ ReportedExisting
    /\ \E i \in DOMAIN calls : BootstrapCallStep(calls[i].argv) = 4
    /\ Len(CallsOf("helm", "install")) = 5

\* a bootstrap that listed the clusters, did not find its own and created it
C37_CreatedWitness ==
    /\ cmd = "bootstrap"
    /\ \E i \in DOMAIN out : out[i][1] = "Cluster does not exist"
    /\ \E i \in DOMAIN calls : BootstrapCallStep(calls[i].argv) = 3 /\ calls[i].ok

----------------------------------------------------------------------------
(* bootstrap: the context of the cluster *)

\* the context bootstrap is expected to select
ExpectedContext ==
    (IF opts.bootstrap.k3d THEN "k3d" ELSE "kind") \o "-" \o opts.bootstrap.name

\* the contexts the set-context step selected, spawned or previewed
SelectedContexts ==
    {calls[i].argv[4] : i \in {j \in DOMAIN calls : calls[j].argv[1] = "kubectl"}}
    \cup {out[i][2] : i \in {j \in DOMAIN out : out[j][1] = "DRY RUN: Would set kubectl context"}}

\* C38: in bootstrap every install command, spawned or previewed, carries
\* --kube-context with the context the set-context step selected, and that
\* context is <tool>-<cluster name>, the tool being k3d exactly when --k3d is
\* given and kind otherwise, also when --kind is given with it.
C38_InstallContextIsClusterContext ==
    cmd = "bootstrap" =>
        /\ SelectedContexts \subseteq {ExpectedContext}
        /\ \A i \in DOMAIN calls :
              calls[i].argv[1] = "kubectl" =>
                  calls[i].argv = <<"kubectl", "config", "use-context", ExpectedContext>>
        /\ \A i \in DOMAIN InstallCommands :
              /\ SubSeq(InstallCommands[i], 5, 6) = <<"--kube-context", ExpectedContext>>
              /\ SelectedContexts = {ExpectedContext}
        /\ \A i \in DOMAIN calls :
              calls[i].argv[1] \in {"kind", "k3d"} =>
                  calls[i].argv[1] = (IF opts.bootstrap.k3d THEN "k3d" ELSE "kind")

\* a bootstrap with --kind and --k3d that switched the context and spawned
\* an install
C38_Witness ==
    /\ cmd = "bootstrap" /\ opts.bootstrap.kind /\ opts.bootstrap.k3d
    /\ \E i \in DOMAIN calls : calls[i].argv[1] = "kubectl"
    /\ CallsOf("helm", "install") # <<>>

\* a bootstrap with neither flag and a cluster name of its own that
\* previewed the context switch and spawned an install
C38_DefaultToolWitness ==
    /\ cmd = "bootstrap" /\ ~opts.bootstrap.kind /\ ~opts.bootstrap.k3d
    /\ opts.bootstrap.name = "lab"
    /\ \E i \in DOMAIN out : out[i] = <<"DRY RUN: Would set kubectl context", "kind-lab">>
    /\ CallsOf("helm", "install") # <<>>

----------------------------------------------------------------------------
(* validate: the order of the validators *)

\* the validators in the order validate_project calls them, by the line
\* each prints first
ValidatorLines ==
    <<"Validating meshstack.yaml...", "Checking Kubernetes cluster connectivity...",
      "Validating CI/CD manifests...">>

\* the validators that were started, in the order they were
StartedValidators ==
    LET ls == SelectSeq(out, LAMBDA l : \E n \in 1..3 : l[1] = ValidatorLines[n])
    IN  [i \in DOMAIN ls |-> CHOOSE n \in 1..3 : ls[i][1] = ValidatorLines[n]]

\* the validators the flags select
SelectedValidators ==
    {n \in 1..3 :
        \/ opts.validate.full
        \/ n = 1 /\ opts.validate.config
        \/ n = 2 /\ opts.validate.cluster
        \/ n = 3 /\ opts.validate.ci}

\* the cluster check, spawned or previewed
ClusterCheckIssued ==
    \/ \E i \in DOMAIN calls : calls[i].argv[1] = "kubectl"
    \/ PreviewLines # <<>>

\* C34: validate starts the validators its flags select, and no other, in
\* the order config, cluster, CI, --full selecting all three; a validator
\* that fails ends the command, so after a failed validation of the
\* configuration the cluster check is not issued, spawned or previewed, and
\* the CI validation does not run; with no flag no validator runs.
C34_ValidatorsInOrder ==
    cmd = "validate" =>
        /\ \A i, j \in DOMAIN StartedValidators :
              i < j => StartedValidators[i] < StartedValidators[j]
        /\ SeqToSet(StartedValidators) \subseteq SelectedValidators
        /\ pc = "done" => SeqToSet(StartedValidators) = SelectedValidators
        /\ ClusterCheckIssued => 2 \in SeqToSet(StartedValidators)
        /\ pc = "failed" =>
              /\ StartedValidators # <<>>
              /\ LET last == StartedValidators[Len(StartedValidators)]
                 IN  /\ last \in {1, 2}
                     /\ SeqToSet(StartedValidators) = {n \in SelectedValidators : n <= last}
                     /\ last = 1 <=> err.kind \in {"meshstack.yaml not found.",
                                                   "meshstack.yaml does not parse"}
                     /\ last = 1 => ~ClusterCheckIssued
                     /\ last = 2 => calls # <<>> /\ ~calls[Len(calls)].ok
        /\ (1 \in SeqToSet(StartedValidators)
              /\ (fs.yaml.kind = "absent" \/ ~serde_yaml_from_str(fs.yaml).ok)) =>
              /\ pc = "failed"
              /\ StartedValidators = <<1>>
              /\ ~ClusterCheckIssued
        /\ (\E i \in DOMAIN calls : ~calls[i].ok) => pc = "failed"
        /\ SelectedValidators = {} => out = <<>> /\ calls = <<>> /\ pc # "failed"

\* validate --full on a meshstack.yaml that is not valid: it failed in the
\* first validator
C34_Witness ==
    /\ cmd = "validate" /\ opts.validate.full /\ pc = "failed"
    /\ StartedValidators = <<1>>
    /\ fs.yaml.kind # "absent"

\* the three validators ran, the cluster check spawned
C34_FullRunWitness ==
    /\ cmd = "validate" /\ pc = "done"
    /\ StartedValidators = <<1, 2, 3>>
    /\ calls # <<>>

\* validate without a flag returned
C34_NoFlagWitness ==
    /\ cmd = "validate" /\ pc = "done" /\ SelectedValidators = {}

\* validate --cluster --ci failed in the cluster check
C34_ClusterFailureWitness ==
    /\ cmd = "validate" /\ pc = "failed" /\ ~opts.validate.full /\ ~opts.validate.config
    /\ StartedValidators = <<2>>

----------------------------------------------------------------------------
(* update: the apply phase *)

\* the helm upgrade commands of the invocation, spawned or previewed
UpgradeCommands ==
    IF "HELM" \in toggles
    THEN LET ls == SelectSeq(PreviewLines, LAMBDA l : l[3] = "upgrade")
         IN  [i \in DOMAIN ls |-> Tail(ls[i])]
    ELSE CallsOf("helm", "upgrade")

\* the copies of the template directory made so far
TemplateCopies == SelectSeq(writes, LAMBDA w : w[1] = "copy_dir_all")

\* the updates the check phase printed, by name
ReportedUpdates ==
    LET ls == SelectSeq(out, LAMBDA l : l[1] = "Available update")
    IN  [i \in DOMAIN ls |-> ls[i][2]]

\* the check phase is over and has found something
CheckPhaseReported == \E i \in DOMAIN out : out[i][1] = "Available update"

\* the chart updates among the first n reported updates
ChartUpdatesAmong(n) ==
    SelectSeq(SubSeq(updates, 1, n), LAMBDA u : u.update_type = "HelmChart")

\* the number of template updates among the first n reported updates
TemplateUpdatesAmong(n) ==
    Len(SelectSeq(SubSeq(updates, 1, n), LAMBDA u : u.update_type = "Template"))

\* the first n reported updates have been applied, each by one step of its
\* kind, and no other
AppliedExactly(n) ==
    /\ Len(UpgradeCommands) = Len(ChartUpdatesAmong(n))
    /\ \A i \in DOMAIN UpgradeCommands :
          UpgradeCommands[i] =
              <<"helm", "upgrade", ChartUpdatesAmong(n)[i].name, ChartUpdatesAmong(n)[i].chart_name,
                "--version", ChartUpdatesAmong(n)[i].latest_version>>
                  \o (IF opts.context # None THEN <<"--kube-context", opts.context>> ELSE <<>>)
    /\ Len(TemplateCopies) = TemplateUpdatesAmong(n)

\* C35: update --apply applies the updates its check phase reported, one
\* step for each, in the order reported: at any moment the steps issued are
\* those of a prefix of the report, the whole report once the command
\* returns. A step that fails is the last one and ends the command. When
\* the check phase reports nothing the command prints that all is up to
\* date and issues no step.
C35_ApplyFollowsReport ==
    (cmd = "update" /\ opts.apply) =>
        /\ ~CheckPhaseReported => AppliedExactly(0)
        /\ CheckPhaseReported =>
              /\ ReportedUpdates = [i \in DOMAIN updates |-> updates[i].name]
              /\ \E n \in 0..Len(updates) : AppliedExactly(n)
              /\ pc = "done" =>
                    /\ AppliedExactly(Len(updates))
                    /\ \A i \in DOMAIN calls : calls[i].argv[2] = "upgrade" => calls[i].ok
        /\ \A i \in DOMAIN calls :
              (calls[i].argv[2] = "upgrade" /\ ~calls[i].ok) =>
                  i = Len(calls) /\ pc = "failed"
        /\ (pc = "done" /\ ~CheckPhaseReported) =>
              /\ updates = <<>>
              /\ \E i \in DOMAIN out : out[i][1] = "All components are up to date!"
        /\ (\E i \in DOMAIN out : out[i][1] = "All components are up to date!") =>
              pc = "done" /\ updates = <<>> /\ AppliedExactly(0)

\* update --apply upgraded two charts, copied the templates and returned
C35_Witness ==
    /\ cmd = "update" /\ opts.apply /\ pc = "done"
    /\ Len(CallsOf("helm", "upgrade")) = 2
    /\ Len(TemplateCopies) = 1
    /\ Len(updates) = 3

\* update --apply found nothing to update
C35_UpToDateWitness ==
    /\ cmd = "update" /\ opts.apply /\ pc = "done"
    /\ \E i \in DOMAIN out : out[i][1] = "All components are up to date!"
    /\ \E i \in DOMAIN calls : calls[i].argv[2] = "list"

\* update --apply stopped at an upgrade that failed, with updates left
C35_FailureWitness ==
    /\ cmd = "update" /\ opts.apply /\ pc = "failed"
    /\ Len(CallsOf("helm", "upgrade")) = 1
    /\ Len(updates) > 1

----------------------------------------------------------------------------
(* update: the check alone *)

\* C36: update --check without --apply changes nothing, whatever
\* --component, --template and --infra are: it issues no helm upgrade,
\* spawned or previewed, copies no template and writes no file; the only
\* processes it spawns are the queries helm list and helm search.
C36_CheckOnlyMutatesNothing ==
    (cmd = "update" /\ opts.check /\ ~opts.apply) =>
        /\ UpgradeCommands = <<>>
        /\ \A a \in IssuedCommands : ~(a[1] = "helm" /\ a[2] = "upgrade")
        /\ writes = <<>>
        /\ \A i \in DOMAIN calls :
              calls[i].argv[1] = "helm" /\ calls[i].argv[2] \in {"list", "search"}
        /\ pc \notin {"apply", "only_component", "only_component_apply", "only_template",
                      "only_template_apply", "only_infra", "only_infra_apply"}

\* update --check --template --infra has reported chart and template
\* updates and returned
C36_Witness ==
    /\ cmd = "update" /\ opts.check /\ ~opts.apply /\ pc = "done"
    /\ opts.template /\ opts.infra /\ opts.component = None
    /\ \E i \in DOMAIN updates : updates[i].update_type = "HelmChart"
    /\ \E i \in DOMAIN updates : updates[i].update_type = "Template"
    /\ ReportedUpdates = [i \in DOMAIN updates |-> updates[i].name]

\* update --check --component istio has reported the update of istio and
\* returned
C36_ComponentWitness ==
    /\ cmd = "update" /\ opts.check /\ ~opts.apply /\ pc = "done"
    /\ opts.component = "istio"
    /\ ReportedUpdates = <<"istio">>
    /\ calls # <<>>

====
